---- MODULE Spec2Model ----
(***************************************************************************)
(* A model of enclaude: the mount-path authorization of                    *)
(* internal/security, the request assembly of the root command             *)
(* (runContainer) with the credential collectors, and the session          *)
(* life cycle of container.Runner.Run.                                     *)
(*                                                                         *)
(* A file name is a TLA+ string; a cleaned absolute path is the sequence   *)
(* of its component names (<<>> is "/").  Where the code looks at the      *)
(* characters of a path (strings.HasPrefix on the result of filepath.Rel)  *)
(* the path is rendered to its string first.                               *)
(***************************************************************************)
EXTENDS Integers, Sequences, FiniteSets, TLC

VARIABLES
    vPath,      \* SpecPath: the path handed to the validators
    vHomeOk,    \* SpecPath: os.UserHomeDir() succeeds
    vOut,       \* SpecPath: Pending, or the validators' results
    xRaw,       \* SpecExpand: the path handed to ExpandPath, as written
    xOut,       \* SpecExpand: NotExpanded, or the results
    crCfg,      \* SpecCred: the configuration handed to the collectors
    crOut,      \* SpecCred: NotCollected, or the collectors' results
    cfgIn,      \* SpecConfig: what the config file and the flags set
    cfgLoaded,  \* SpecConfig: LoadConfig has returned crCfg
    host,       \* SpecCli: [fs, env, homeOk, cwdOk, cwd] of the invoking process
    rcIn,       \* SpecCli: the flags and configuration values read so far
    rcPc,       \* SpecCli: the position of runContainer
    rcMounts,   \* SpecCli: runContainer's local `mounts`
    rcEnv,      \* SpecCli: runContainer's local `env`
    rcCACerts,  \* SpecCli: runContainer's local `caCerts`
    rcErr,      \* SpecCli: the error runContainer returned, "nil" for none
    isTTY,      \* Spec: term.IsTerminal(os.Stdin.Fd())
    pc,         \* Spec: the position of the control task (Runner.Run)
    defers,     \* Spec: Run's deferred calls, the last registered first
    result,     \* Spec: what Run returned
    cancelBy,   \* Spec: who has called cancel(); ctx is done iff non-empty
    ctr,        \* Spec: the container: none, created, running, exited, removed
    exitCode,   \* Spec: the status code of the exited container
    attachOpen, \* Spec: the hijacked attach connection is open
    outPc,      \* Spec: the output relay (attach reader or log follower)
    outputDone, \* Spec: the messages in the channel outputDone (capacity 1)
    inPc,       \* Spec: the input relay
    reads,      \* Spec: the chunks the input relay has read from os.Stdin
    consumed,   \* Spec: the bytes of those chunks, in the order read
    fwd,        \* Spec: the bytes the input relay wrote to the container
    monPc,      \* Spec: the resize watcher (monitorTtySize)
    winches,    \* Spec: the SIGWINCH signals the watcher has handled
    wait,       \* Spec: the engine's wait call behind statusCh and errCh
    waitErr,    \* Spec: the error buffered in errCh
    recv,       \* Spec: what the select of Run received
    rawMode,    \* Spec: the host terminal is in raw mode
    restores,   \* Spec: the calls of term.RestoreTerminal
    calls,      \* Spec: the engine calls issued, in order
    sigPc,      \* Spec: runContainer's signal goroutine
    cancelAt    \* Spec: history, the session when cancel() was first called

pathVars == <<vPath, vHomeOk, vOut, xRaw, xOut>>
credVars == <<crCfg, crOut, cfgIn, cfgLoaded>>
cliVars == <<host, rcIn, rcPc, rcMounts, rcEnv, rcCACerts, rcErr>>
ctlVars == <<pc, defers, result, recv, rawMode, restores>>
relayVars == <<outPc, outputDone, inPc, reads, consumed, fwd, monPc, winches>>
engineVars == <<ctr, exitCode, attachOpen, wait, waitErr, calls>>
ctxVars == <<cancelBy, sigPc, cancelAt>>
runVars == <<isTTY, ctlVars, relayVars, engineVars, ctxVars>>
vars == <<pathVars, credVars, cliVars, runVars>>

----------------------------------------------------------------------------
(* Bounds *)

\* longest generated component name, in characters
MaxNameLen == 3
\* most components appended below a base path
MaxTail == 1

----------------------------------------------------------------------------
(* Strings and paths *)

\* strings.HasPrefix
HasPrefix(s, prefix) ==
    /\ Len(s) >= Len(prefix)
    /\ SubSeq(s, 1, Len(prefix)) = prefix

\* strings.Join(comps, "/")
RECURSIVE JoinSlash(_)
JoinSlash(comps) ==
    IF Len(comps) = 0 THEN ""
    ELSE IF Len(comps) = 1 THEN comps[1]
    ELSE comps[1] \o "/" \o JoinSlash(Tail(comps))

\* number of leading components two paths share
RECURSIVE CommonLen(_, _)
CommonLen(a, b) ==
    IF Len(a) = 0 \/ Len(b) = 0 \/ a[1] # b[1] THEN 0
    ELSE 1 + CommonLen(Tail(a), Tail(b))

SeqToSet(s) == {s[i] : i \in 1..Len(s)}

\* filepath.Dir and filepath.Base of a path that is not "/"
Parent(path) == SubSeq(path, 1, Len(path) - 1)
Last(path) == path[Len(path)]

Prefixes(path) == {SubSeq(path, 1, n) : n \in 0..Len(path)}

Dots(n) == [i \in 1..n |-> ".."]

\* filepath.Rel(basepath, targpath) for two cleaned absolute paths: "." when
\* they are the same, otherwise one ".." for every component of basepath
\* after the common prefix, followed by the rest of targpath.  (Its error
\* return needs a relative operand or a ".." component left in basepath;
\* neither exists in a cleaned absolute path.)
Rel(basepath, targpath) ==
    LET k == CommonLen(basepath, targpath)
    IN  IF basepath = targpath THEN "."
        ELSE JoinSlash(Dots(Len(basepath) - k)
                       \o SubSeq(targpath, k + 1, Len(targpath)))

\* os.UserHomeDir() when $HOME is set
Home == <<"home", "u">>

\* The rules are written "~/<rest>"; a rule is modelled by the components of
\* <rest>.
HardcodedDeniedPaths ==
    << <<".gnupg">>,
       <<".netrc">>,
       <<".docker", "config.json">>,
       <<".kube", "config">>,
       <<".aws", "credentials">> >>

CredentialControlledPaths ==
    << <<".ssh">>,
       <<".aws">>,
       <<".config", "gh">>,
       <<".config", "gcloud">> >>

\* expandTilde on a rule "~/<rest>": filepath.Join(home, rest)
expandTilde(rest, home) == home \o rest

\* pathMatches as a comparison of the rendered strings: a plausible slip that
\* takes "/home/u/.netrc.bak" to lie under "/home/u/.netrc".
pathMatchesStringPrefix(path, target) ==
    HasPrefix(JoinSlash(path), JoinSlash(target))

\* pathMatches: "checks if path is equal to or a child of target"
pathMatches(path, target) ==
    \/ path = target
    \/ ~HasPrefix(Rel(target, path), "..")

\* The index of the first rule of `rules` that `path` matches, 0 when none
\* does (the range loops of ValidateMountPath and ValidateMountPathStrict).
RECURSIVE FirstMatch(_, _, _)
FirstMatch(path, rules, i) ==
    IF i > Len(rules) THEN 0
    ELSE IF pathMatches(path, expandTilde(rules[i], Home)) THEN i
    ELSE FirstMatch(path, rules, i + 1)

NoError == <<"nil">>
HomeError == <<"failed to get home directory">>
DeniedError(i) == <<"path is in hardcoded denied list", i>>
ControlledError(i) == <<"path requires explicit credential configuration", i>>

\* ValidateMountPath: the error it returns, NoError for nil
ValidateMountPath(path, homeOk) ==
    IF ~homeOk THEN HomeError
    ELSE LET i == FirstMatch(path, HardcodedDeniedPaths, 1)
         IN  IF i # 0 THEN DeniedError(i) ELSE NoError

\* ValidateMountPathStrict
ValidateMountPathStrict(path, homeOk) ==
    LET first == ValidateMountPath(path, homeOk)
    IN  IF first # NoError THEN first
        ELSE LET i == FirstMatch(path, CredentialControlledPaths, 1)
             IN  IF i # 0 THEN ControlledError(i) ELSE NoError

----------------------------------------------------------------------------
(* The host: file system, environment, home directory *)

\* A file system is [dirs, files, links]: the directories and the
\* non-directories (regular files, sockets) by path, and the symbolic links
\* with their absolute targets.  "/" is a directory of every file system.
TypeOf(fs, path) ==
    IF path = <<>> \/ path \in fs.dirs THEN "dir"
    ELSE IF path \in fs.files THEN "file"
    ELSE IF path \in DOMAIN fs.links THEN "link"
    ELSE "none"

\* most links followed while resolving one path (EvalSymlinks gives up after
\* 255)
MaxLinks == 4

\* filepath.EvalSymlinks: walks `rest` below the resolved prefix `cur`.
\* [err |-> "nil", path] or [err |-> "notexist" | "notdir" | "loop"].
RECURSIVE WalkSymlinks(_, _, _, _)
WalkSymlinks(fs, cur, rest, fuel) ==
    IF Len(rest) = 0 THEN [err |-> "nil", path |-> cur]
    ELSE LET next == cur \o <<rest[1]>>
             type == TypeOf(fs, next)
         IN  IF type = "none" THEN [err |-> "notexist", path |-> <<>>]
             ELSE IF type = "dir" THEN WalkSymlinks(fs, next, Tail(rest), fuel)
             ELSE IF type = "file"
                  THEN IF Len(rest) > 1
                       THEN [err |-> "notdir", path |-> <<>>]
                       ELSE [err |-> "nil", path |-> next]
             ELSE IF fuel = 0 THEN [err |-> "loop", path |-> <<>>]
             ELSE WalkSymlinks(fs, <<>>, fs.links[next] \o Tail(rest), fuel - 1)

EvalSymlinks(fs, path) == WalkSymlinks(fs, <<>>, path, MaxLinks)

\* PathExists(path, expectDir): os.Stat follows links
PathExists(fs, path, expectDir) ==
    LET r == EvalSymlinks(fs, path)
    IN  /\ r.err = "nil"
        /\ (TypeOf(fs, r.path) = "dir") = expectDir

FileExists(fs, path) == PathExists(fs, path, FALSE)
DirExists(fs, path) == PathExists(fs, path, TRUE)

\* filepath.Clean on the components of an absolute path: "." is dropped and
\* ".." removes the component before it (nothing at the root)
RECURSIVE CleanFrom(_, _)
CleanFrom(done, rest) ==
    IF Len(rest) = 0 THEN done
    ELSE IF rest[1] = "." THEN CleanFrom(done, Tail(rest))
    ELSE IF rest[1] = ".."
         THEN CleanFrom(IF Len(done) = 0 THEN done ELSE Parent(done), Tail(rest))
    ELSE CleanFrom(done \o <<rest[1]>>, Tail(rest))

Clean(comps) == CleanFrom(<<>>, comps)

\* A path as the user writes it: [kind, comps] with kind "empty" (""),
\* "tilde" ("~" or "~/<comps>"), "abs" ("/<comps>") or "rel" ("<comps>").
Raw(kind, comps) == [kind |-> kind, comps |-> comps]
EmptyPath == Raw("empty", <<>>)

\* ExpandPath with a path that does not exist treated as any other
\* failure of EvalSymlinks: a plausible slip
ExpandPathMustExist(h, raw) ==
    IF raw.kind = "empty" THEN [err |-> "empty path", path |-> <<>>]
    ELSE IF raw.kind = "tilde" /\ ~h.homeOk
         THEN [err |-> "failed to get home directory", path |-> <<>>]
    ELSE IF raw.kind = "rel" /\ ~h.cwdOk
         THEN [err |-> "failed to get current directory", path |-> <<>>]
    ELSE LET path == Clean((IF raw.kind = "tilde" THEN Home
                            ELSE IF raw.kind = "rel" THEN h.cwd
                            ELSE <<>>) \o raw.comps)
             resolved == EvalSymlinks(h.fs, path)
         IN  IF resolved.err = "nil" THEN resolved
             ELSE [err |-> "failed to resolve path", path |-> <<>>]

\* ExpandPath: [err |-> "nil", path] or an error
ExpandPath(h, raw) ==
    IF raw.kind = "empty" THEN [err |-> "empty path", path |-> <<>>]
    ELSE IF raw.kind = "tilde" /\ ~h.homeOk
         THEN [err |-> "failed to get home directory", path |-> <<>>]
    ELSE IF raw.kind = "rel" /\ ~h.cwdOk
         THEN [err |-> "failed to get current directory", path |-> <<>>]
    ELSE LET path == Clean((IF raw.kind = "tilde" THEN Home
                            ELSE IF raw.kind = "rel" THEN h.cwd
                            ELSE <<>>) \o raw.comps)
             resolved == EvalSymlinks(h.fs, path)
         IN  IF resolved.err = "nil" THEN resolved
             ELSE IF resolved.err = "notexist" THEN [err |-> "nil", path |-> path]
             ELSE [err |-> "failed to resolve path", path |-> <<>>]

\* An environment is a function from the names that are set to their values
\* (strings); os.Getenv gives "" for a name that is not set.
Getenv(env, key) == IF key \in DOMAIN env THEN env[key] ELSE ""

\* the string of an absolute path
AbsString(path) == "/" \o JoinSlash(path)

----------------------------------------------------------------------------
(* internal/credentials: the collectors *)

AuthAuto == "auto"
AuthSession == "session"
AuthAPIKey == "api-key"
CredentialAuto == "auto"
CredentialEnabled == "enabled"
CredentialDisabled == "disabled"
SessionNone == "none"
SessionReadOnly == "readonly"
SessionReadWrite == "readwrite"

\* container.Mount
Mount(source, target, readOnly) ==
    [Source |-> source, Target |-> target, ReadOnly |-> readOnly]

EmptyEnv == [k \in {} |-> ""]
SetEnv(env, key, val) ==
    [k \in DOMAIN env \cup {key} |-> IF k = key THEN val ELSE env[k]]
\* The merge that keeps the value a key already has: a plausible slip
MergeEnvKeepFirst(env, more) ==
    [k \in DOMAIN env \cup DOMAIN more |->
        IF k \in DOMAIN env THEN env[k] ELSE more[k]]

\* for k, v := range more { env[k] = v }
MergeEnv(env, more) ==
    [k \in DOMAIN env \cup DOMAIN more |->
        IF k \in DOMAIN more THEN more[k] ELSE env[k]]

\* the absolute paths a host environment variable may name
EnvPaths ==
    { Home \o <<"proj", "sa.json">>,
      Home \o <<".netrc">>,
      Home \o <<".aws", "config">>,
      Home \o <<".ssh", "id_a">>,
      <<"run", "agent.sock">>,
      Home \o <<".gnupg", "S.gpg-agent.ssh">> }

\* the path a string names (the inverse of AbsString on EnvPaths)
ParsePath(str) == CHOOSE path \in EnvPaths : AbsString(path) = str

ClaudeTarget == <<"tmp", ".claude">>
GhHostsTarget == <<"root", ".config", "gh", "hosts.yml">>
AdcTarget == <<"root", ".config", "gcloud", "application_default_credentials.json">>
SshTargetDir == <<"root", ".ssh">>
AgentSockTarget == <<"tmp", "ssh-agent.sock">>

\* CollectClaudeAuth without the default of SessionDir: a plausible slip
\* that leaves the session directory writable when the setting is unset
CollectClaudeAuthNoDefault(claude, h) ==
    IF ~h.homeOk THEN [mounts |-> <<>>, env |-> EmptyEnv]
    ELSE LET auth == IF claude.Auth = "" THEN AuthAuto ELSE claude.Auth
             key == Getenv(h.env, "ANTHROPIC_API_KEY")
             claudePath == Home \o <<".claude">>
         IN  [env |->
                 IF auth \in {AuthAuto, AuthAPIKey} /\ key # ""
                 THEN SetEnv(EmptyEnv, "ANTHROPIC_API_KEY", key)
                 ELSE EmptyEnv,
              mounts |->
                 IF /\ auth \in {AuthAuto, AuthSession}
                    /\ claude.SessionDir # SessionNone
                    /\ DirExists(h.fs, claudePath)
                 THEN <<Mount(claudePath, ClaudeTarget,
                              claude.SessionDir = SessionReadOnly)>>
                 ELSE <<>>]

\* CollectClaudeAuth(cfg), of cfg.Claude: [mounts, env]
CollectClaudeAuth(claude, h) ==
    IF ~h.homeOk THEN [mounts |-> <<>>, env |-> EmptyEnv]
    ELSE LET auth == IF claude.Auth = "" THEN AuthAuto ELSE claude.Auth
             key == Getenv(h.env, "ANTHROPIC_API_KEY")
             sessionDir == IF claude.SessionDir = "" THEN SessionReadOnly
                           ELSE claude.SessionDir
             claudePath == Home \o <<".claude">>
         IN  [env |->
                 IF auth \in {AuthAuto, AuthAPIKey} /\ key # ""
                 THEN SetEnv(EmptyEnv, "ANTHROPIC_API_KEY", key)
                 ELSE EmptyEnv,
              mounts |->
                 IF /\ auth \in {AuthAuto, AuthSession}
                    /\ sessionDir # SessionNone
                    /\ DirExists(h.fs, claudePath)
                 THEN <<Mount(claudePath, ClaudeTarget,
                              sessionDir = SessionReadOnly)>>
                 ELSE <<>>]

\* shouldEnable with "auto" decided by the variables: a plausible slip that
\* ends the auto case with `return false`
shouldEnableOnSignal(setting, env, envVars) ==
    IF setting = CredentialEnabled THEN TRUE
    ELSE IF setting = CredentialDisabled THEN FALSE
    ELSE IF setting = CredentialAuto
         THEN \E v \in envVars : Getenv(env, v) # ""
    ELSE TRUE

\* shouldEnable without its case for the setting "disabled": a plausible slip
shouldEnableAlways(setting, env, envVars) == TRUE

\* shouldEnable(setting, envVars...)
shouldEnable(setting, env, envVars) ==
    IF setting = CredentialEnabled THEN TRUE
    ELSE IF setting = CredentialDisabled THEN FALSE
    ELSE IF setting = CredentialAuto
         THEN IF \E v \in envVars : Getenv(env, v) # "" THEN TRUE ELSE TRUE
    ELSE TRUE

\* The body of the loop with a test for existence only: a plausible slip
\* that mounts a directory named as a key
SSHKeyMountAnyKind(keyPath, h) ==
    LET expanded == ExpandPath(h, keyPath)
    IN  IF expanded.err # "nil" THEN <<>>
        ELSE IF EvalSymlinks(h.fs, expanded.path).err = "nil"
             THEN <<Mount(expanded.path,
                          SshTargetDir \o <<Last(expanded.path)>>,
                          TRUE)>>
        ELSE <<>>

\* the body of the loop of collectSSHCredentials, for one entry of
\* cfg.Credentials.SSH.Keys: the mounts it appends
SSHKeyMount(keyPath, h) ==
    LET expanded == ExpandPath(h, keyPath)
    IN  IF expanded.err # "nil" THEN <<>>
        ELSE IF FileExists(h.fs, expanded.path)
             THEN <<Mount(expanded.path,
                          SshTargetDir \o <<Last(expanded.path)>>,
                          TRUE)>>
        ELSE <<>>

\* the loop of collectSSHCredentials over cfg.Credentials.SSH.Keys
RECURSIVE SSHKeyMounts(_, _)
SSHKeyMounts(keys, h) ==
    IF Len(keys) = 0 THEN <<>>
    ELSE SSHKeyMount(keys[1], h) \o SSHKeyMounts(Tail(keys), h)

\* collectSSHCredentials(cfg, home), of cfg.Credentials.SSH: [mounts, env]
collectSSHCredentials(ssh, h) ==
    LET knownHostsPath == Home \o <<".ssh", "known_hosts">>
        authSock == Getenv(h.env, "SSH_AUTH_SOCK")
        forward == ssh.AgentForwarding /\ authSock # ""
    IN  [mounts |->
            SSHKeyMounts(ssh.Keys, h)
            \o (IF ssh.KnownHosts /\ FileExists(h.fs, knownHostsPath)
                THEN <<Mount(knownHostsPath, SshTargetDir \o <<"known_hosts">>,
                             TRUE)>>
                ELSE <<>>)
            \o (IF forward
                THEN <<Mount(ParsePath(authSock), AgentSockTarget, FALSE)>>
                ELSE <<>>),
         env |->
            IF forward
            THEN SetEnv(EmptyEnv, "SSH_AUTH_SOCK", AbsString(AgentSockTarget))
            ELSE EmptyEnv]

\* The GitHub block with the mount of hosts.yml tried in every case: a
\* plausible slip that turns the else branch into a statement of its own
GitHubCredentialsBothKinds(setting, h) ==
    IF ~shouldEnable(setting, h.env, {"GH_TOKEN", "GITHUB_TOKEN"})
    THEN [mounts |-> <<>>, env |-> EmptyEnv]
    ELSE LET ghToken == Getenv(h.env, "GH_TOKEN")
             githubToken == Getenv(h.env, "GITHUB_TOKEN")
             ghConfigPath == Home \o <<".config", "gh", "hosts.yml">>
         IN  [env |-> IF ghToken # "" THEN SetEnv(EmptyEnv, "GH_TOKEN", ghToken)
                      ELSE IF githubToken # ""
                           THEN SetEnv(EmptyEnv, "GH_TOKEN", githubToken)
                      ELSE EmptyEnv,
              mounts |-> IF FileExists(h.fs, ghConfigPath)
                         THEN <<Mount(ghConfigPath, GhHostsTarget, TRUE)>>
                         ELSE <<>>]

\* the GitHub block of CollectExternalCredentials, of cfg.Credentials.GitHub
GitHubCredentials(setting, h) ==
    IF ~shouldEnable(setting, h.env, {"GH_TOKEN", "GITHUB_TOKEN"})
    THEN [mounts |-> <<>>, env |-> EmptyEnv]
    ELSE LET ghToken == Getenv(h.env, "GH_TOKEN")
             githubToken == Getenv(h.env, "GITHUB_TOKEN")
             ghConfigPath == Home \o <<".config", "gh", "hosts.yml">>
         IN  IF ghToken # ""
             THEN [mounts |-> <<>>, env |-> SetEnv(EmptyEnv, "GH_TOKEN", ghToken)]
             ELSE IF githubToken # ""
             THEN [mounts |-> <<>>,
                   env |-> SetEnv(EmptyEnv, "GH_TOKEN", githubToken)]
             ELSE IF FileExists(h.fs, ghConfigPath)
             THEN [mounts |-> <<Mount(ghConfigPath, GhHostsTarget, TRUE)>>,
                   env |-> EmptyEnv]
             ELSE [mounts |-> <<>>, env |-> EmptyEnv]

\* The Google Cloud block with the variable set only next to the default
\* file: a plausible slip that passes the host's path through for a custom
\* file
GCloudCredentialsHostPath(setting, h) ==
    IF ~shouldEnable(setting, h.env, {"GOOGLE_APPLICATION_CREDENTIALS"})
    THEN [mounts |-> <<>>, env |-> EmptyEnv]
    ELSE LET adcPath == Home \o <<".config", "gcloud",
                                  "application_default_credentials.json">>
             adc == FileExists(h.fs, adcPath)
             customPath == Getenv(h.env, "GOOGLE_APPLICATION_CREDENTIALS")
             custom == customPath # "" /\ FileExists(h.fs, ParsePath(customPath))
         IN  [mounts |->
                 (IF adc THEN <<Mount(adcPath, AdcTarget, TRUE)>> ELSE <<>>)
                 \o (IF custom
                     THEN <<Mount(ParsePath(customPath), AdcTarget, TRUE)>>
                     ELSE <<>>),
              env |->
                 IF adc
                 THEN SetEnv(EmptyEnv, "GOOGLE_APPLICATION_CREDENTIALS",
                             AbsString(AdcTarget))
                 ELSE IF custom
                 THEN SetEnv(EmptyEnv, "GOOGLE_APPLICATION_CREDENTIALS",
                             customPath)
                 ELSE EmptyEnv]

\* the Google Cloud block of CollectExternalCredentials, of
\* cfg.Credentials.GCloud
GCloudCredentials(setting, h) ==
    IF ~shouldEnable(setting, h.env, {"GOOGLE_APPLICATION_CREDENTIALS"})
    THEN [mounts |-> <<>>, env |-> EmptyEnv]
    ELSE LET adcPath == Home \o <<".config", "gcloud",
                                  "application_default_credentials.json">>
             adc == FileExists(h.fs, adcPath)
             customPath == Getenv(h.env, "GOOGLE_APPLICATION_CREDENTIALS")
             custom == customPath # "" /\ FileExists(h.fs, ParsePath(customPath))
         IN  [mounts |->
                 (IF adc THEN <<Mount(adcPath, AdcTarget, TRUE)>> ELSE <<>>)
                 \o (IF custom
                     THEN <<Mount(ParsePath(customPath), AdcTarget, TRUE)>>
                     ELSE <<>>),
              env |->
                 IF adc \/ custom
                 THEN SetEnv(EmptyEnv, "GOOGLE_APPLICATION_CREDENTIALS",
                             AbsString(AdcTarget))
                 ELSE EmptyEnv]

\* CollectExternalCredentials(cfg), of cfg.Credentials: [mounts, env, err]
CollectExternalCredentials(creds, h) ==
    IF ~h.homeOk
    THEN [mounts |-> <<>>, env |-> EmptyEnv, err |-> "home"]
    ELSE
    LET github == GitHubCredentials(creds.GitHub, h)
        gcloud == GCloudCredentials(creds.GCloud, h)
        ssh == IF creds.SSH.Enabled THEN collectSSHCredentials(creds.SSH, h)
               ELSE [mounts |-> <<>>, env |-> EmptyEnv]
    IN  [mounts |-> github.mounts \o gcloud.mounts \o ssh.mounts,
         env |-> MergeEnv(MergeEnv(github.env, gcloud.env), ssh.env),
         err |-> "nil"]

----------------------------------------------------------------------------
(* internal/cli: runContainer *)

\* The loops over the flags with the handling of the other loops, which
\* skip an entry that fails: a plausible slip
RECURSIVE FlagMountsSkipping(_, _, _)
FlagMountsSkipping(h, list, readOnly) ==
    IF Len(list) = 0 THEN [err |-> "nil", mounts |-> <<>>]
    ELSE LET expanded == ExpandPath(h, list[1])
             rest == FlagMountsSkipping(h, Tail(list), readOnly)
         IN  IF expanded.err # "nil" THEN rest
             ELSE IF ValidateMountPath(expanded.path, h.homeOk) # NoError
                  THEN rest
             ELSE [err |-> "nil",
                   mounts |-> <<Mount(expanded.path, expanded.path,
                                      readOnly)>> \o rest.mounts]

\* the loops over the --mount and --mount-ro flags: [err, mounts]
RECURSIVE FlagMounts(_, _, _)
FlagMounts(h, list, readOnly) ==
    IF Len(list) = 0 THEN [err |-> "nil", mounts |-> <<>>]
    ELSE LET expanded == ExpandPath(h, list[1])
         IN  IF expanded.err # "nil"
             THEN [err |-> "invalid mount path", mounts |-> <<>>]
             ELSE IF ValidateMountPath(expanded.path, h.homeOk) # NoError
                  THEN [err |-> "mount path denied", mounts |-> <<>>]
             ELSE LET rest == FlagMounts(h, Tail(list), readOnly)
                  IN  IF rest.err # "nil" THEN rest
                      ELSE [err |-> "nil",
                            mounts |-> <<Mount(expanded.path, expanded.path,
                                               readOnly)>> \o rest.mounts]

\* the loop over cfg.Mounts.Defaults: an entry that fails is skipped
RECURSIVE DefaultMounts(_, _)
DefaultMounts(h, list) ==
    IF Len(list) = 0 THEN <<>>
    ELSE LET expanded == ExpandPath(h, list[1].Path)
             rest == DefaultMounts(h, Tail(list))
         IN  IF expanded.err # "nil" THEN rest
             ELSE IF ValidateMountPath(expanded.path, h.homeOk) # NoError
                  THEN rest
             ELSE <<Mount(expanded.path, expanded.path, list[1].ReadOnly)>>
                  \o rest

\* the loop over cfg.Environment.Passthrough (os.LookupEnv)
RECURSIVE Passthrough(_, _, _)
Passthrough(env, hostEnv, keys) ==
    IF Len(keys) = 0 THEN env
    ELSE Passthrough(IF keys[1] \in DOMAIN hostEnv
                     THEN SetEnv(env, keys[1], hostEnv[keys[1]])
                     ELSE env,
                     hostEnv, Tail(keys))

\* the loop over cfg.Security.CACerts: a path that fails, or that does not
\* exist, is skipped
RECURSIVE CACertPaths(_, _)
CACertPaths(h, list) ==
    IF Len(list) = 0 THEN <<>>
    ELSE LET expanded == ExpandPath(h, list[1])
             rest == CACertPaths(h, Tail(list))
         IN  IF expanded.err # "nil" THEN rest
             ELSE IF ValidateMountPath(expanded.path, h.homeOk) # NoError
                  THEN rest
             ELSE IF EvalSymlinks(h.fs, expanded.path).err = "notexist"
                  THEN rest
             ELSE <<expanded.path>> \o rest

WorkspaceTarget == <<"workspace">>

Fail(err) ==
    /\ rcPc' = "failed"
    /\ rcErr' = err

\* workdir flag, os.Getwd, ExpandPath, and the first mount
RcWorkdir(flag) ==
    /\ rcPc = "workdir"
    /\ rcIn' = [rcIn EXCEPT !.workdir = flag]
    /\ LET workDir == IF flag = EmptyPath THEN Raw("abs", host.cwd) ELSE flag
           expanded == ExpandPath(host, workDir)
       IN  IF flag = EmptyPath /\ ~host.cwdOk
           THEN /\ Fail("failed to get current directory")
                /\ UNCHANGED rcMounts
           ELSE IF expanded.err # "nil"
           THEN /\ Fail("invalid working directory")
                /\ UNCHANGED rcMounts
           ELSE /\ rcMounts' = <<Mount(expanded.path, WorkspaceTarget, FALSE)>>
                /\ rcPc' = "mount"
                /\ UNCHANGED rcErr
    /\ UNCHANGED <<host, rcEnv, rcCACerts>>
    /\ UNCHANGED <<pathVars, credVars, runVars>>

\* the --mount flags
RcMount(list) ==
    /\ rcPc = "mount"
    /\ rcIn' = [rcIn EXCEPT !.mount = list]
    /\ LET r == FlagMounts(host, list, FALSE)
       IN  IF r.err # "nil"
           THEN /\ Fail(r.err)
                /\ UNCHANGED rcMounts
           ELSE /\ rcMounts' = rcMounts \o r.mounts
                /\ rcPc' = "mountro"
                /\ UNCHANGED rcErr
    /\ UNCHANGED <<host, rcEnv, rcCACerts>>
    /\ UNCHANGED <<pathVars, credVars, runVars>>

\* the --mount-ro flags
RcMountRo(list) ==
    /\ rcPc = "mountro"
    /\ rcIn' = [rcIn EXCEPT !.mountRo = list]
    /\ LET r == FlagMounts(host, list, TRUE)
       IN  IF r.err # "nil"
           THEN /\ Fail(r.err)
                /\ UNCHANGED rcMounts
           ELSE /\ rcMounts' = rcMounts \o r.mounts
                /\ rcPc' = "defaults"
                /\ UNCHANGED rcErr
    /\ UNCHANGED <<host, rcEnv, rcCACerts>>
    /\ UNCHANGED <<pathVars, credVars, runVars>>

\* cfg.Mounts.Defaults
RcDefaults(list) ==
    /\ rcPc = "defaults"
    /\ rcIn' = [rcIn EXCEPT !.defaults = list]
    /\ rcMounts' = rcMounts \o DefaultMounts(host, list)
    /\ rcPc' = "env"
    /\ UNCHANGED <<host, rcEnv, rcCACerts, rcErr>>
    /\ UNCHANGED <<pathVars, credVars, runVars>>

\* cfg.Environment.Passthrough, then cfg.Environment.Custom
RcEnvironment(keys, custom) ==
    /\ rcPc = "env"
    /\ rcIn' = [rcIn EXCEPT !.passthrough = keys, !.custom = custom]
    /\ rcEnv' = MergeEnv(Passthrough(EmptyEnv, host.env, keys), custom)
    /\ rcPc' = "claude"
    /\ UNCHANGED <<host, rcMounts, rcCACerts, rcErr>>
    /\ UNCHANGED <<pathVars, credVars, runVars>>

\* credentials.CollectClaudeAuth(cfg)
RcClaudeAuth(claude) ==
    /\ rcPc = "claude"
    /\ rcIn' = [rcIn EXCEPT !.claude = claude]
    /\ LET r == CollectClaudeAuth(claude, host)
       IN  /\ rcMounts' = rcMounts \o r.mounts
           /\ rcEnv' = MergeEnv(rcEnv, r.env)
    /\ rcPc' = "external"
    /\ UNCHANGED <<host, rcCACerts, rcErr>>
    /\ UNCHANGED <<pathVars, credVars, runVars>>

\* if !noExtCreds { extMounts, extEnv, err := CollectExternalCredentials(cfg) }:
\* what the external services add to the request
ExternalContribution(noExtCreds, creds, h) ==
    IF noExtCreds THEN [mounts |-> <<>>, env |-> EmptyEnv, err |-> "nil"]
    ELSE CollectExternalCredentials(creds, h)

\* --no-external-credentials, credentials.CollectExternalCredentials(cfg)
RcExternal(noExtCreds, creds) ==
    /\ rcPc = "external"
    /\ rcIn' = [rcIn EXCEPT !.noExtCreds = noExtCreds, !.creds = creds]
    /\ LET r == ExternalContribution(noExtCreds, creds, host)
       IN  IF r.err # "nil"
           THEN /\ Fail("failed to collect credentials")
                /\ UNCHANGED <<rcMounts, rcEnv>>
           ELSE /\ rcMounts' = rcMounts \o r.mounts
                /\ rcEnv' = MergeEnv(rcEnv, r.env)
                /\ rcPc' = "cacerts"
                /\ UNCHANGED rcErr
    /\ UNCHANGED <<host, rcCACerts>>
    /\ UNCHANGED <<pathVars, credVars, runVars>>

\* cfg.Security.CACerts
RcCACerts(list) ==
    /\ rcPc = "cacerts"
    /\ rcIn' = [rcIn EXCEPT !.caCerts = list]
    /\ rcCACerts' = CACertPaths(host, list)
    /\ rcPc' = "runner"
    /\ UNCHANGED <<host, rcMounts, rcEnv, rcErr>>
    /\ UNCHANGED <<pathVars, credVars, runVars>>

\* container.NewRunner(), and runner.Run(ctx, cancel, opts) with
\* opts.Mounts = mounts, opts.Environment = env, opts.Security.CACerts =
\* caCerts: at "run" the request is in the hands of Run
RcRun(engineUp) ==
    /\ rcPc = "runner"
    /\ rcIn' = [rcIn EXCEPT !.engineUp = engineUp]
    /\ IF engineUp
       THEN /\ rcPc' = "run"
            /\ UNCHANGED rcErr
       ELSE Fail("failed to create container runner")
    /\ UNCHANGED <<host, rcMounts, rcEnv, rcCACerts>>
    /\ UNCHANGED <<pathVars, credVars, runVars>>

\* tmpfsMounts := []string{"/tmp", "/run", "/var/tmp"}
tmpfsMounts == << <<"tmp">>, <<"run">>, <<"var", "tmp">> >>
\* "/usr/local/share/ca-certificates/" + filepath.Base(certPath)
CACertTarget(certPath) ==
    <<"usr", "local", "share", "ca-certificates">>
    \o (IF Len(certPath) = 0 THEN <<"/">> ELSE <<Last(certPath)>>)
\* the mount list Run builds for the engine: the targets of opts.Mounts,
\* the tmpfs mounts when opts.Security.ReadOnlyRoot, the CA certificates
EngineMountTargets(optsMounts, readOnlyRoot, caCerts) ==
    [i \in 1..Len(optsMounts) |-> optsMounts[i].Target]
    \o (IF readOnlyRoot THEN tmpfsMounts ELSE <<>>)
    \o [i \in 1..Len(caCerts) |-> CACertTarget(caCerts[i])]

----------------------------------------------------------------------------
(* internal/container: Runner.Run, with the tasks it starts, the engine    *)
(* behind the client and the cancel() callers of runContainer              *)

\* most chunks the input relay reads from os.Stdin
MaxReads == 1
\* most SIGWINCH signals the resize watcher handles
MaxWinch == 1
\* the container exits with a status code in 0..MaxExit
MaxExit == 1
\* timeout := 5
StopTimeout == 5
\* Ctrl+C, 0x03
InterruptByte == 3

\* what os.Stdin.Read may deliver
Chunks == { <<65>>, <<InterruptByte>>, <<65, InterruptByte>> }

\* for i := 0; i < n; i++ { if buf[i] == 0x03 {...} }
HasInterrupt(chunk) == \E i \in 1..Len(chunk) : chunk[i] = InterruptByte

ctxDone == cancelBy # {}

\* an engine call: the operation, the context it was issued on, and the
\* options that matter (Force of RemoveOptions, Timeout of StopOptions)
Call(op, c) == [op |-> op, ctx |-> c, force |-> FALSE, timeout |-> 0]
RemoveCall == [op |-> "remove", ctx |-> "background", force |-> TRUE, timeout |-> 0]
StopCall ==
    [op |-> "stop", ctx |-> "background", force |-> FALSE, timeout |-> StopTimeout]

\* ContainerRemove issued on the cancellable context: a plausible slip
RemoveCallOnCtx == [op |-> "remove", ctx |-> "ctx", force |-> TRUE, timeout |-> 0]

Result(kind, code) == [kind |-> kind, code |-> code]
NoResult == Result("running", 0)
NothingReceived == [case |-> "none", err |-> "nil", status |-> 0]

\* cancel(): the first call closes ctx.Done()
CancelCtx(who) ==
    /\ cancelBy' = cancelBy \cup {who}
    /\ cancelAt' = IF cancelBy = {}
                   THEN [fired |-> TRUE, ctr |-> ctr, pc |-> pc, wait |-> wait]
                   ELSE cancelAt

\* A task blocked in the select of Run is woken by the first channel
\* operation that becomes possible, and that operation decides its case.
Wake(case, err, status) ==
    IF pc = "blocked"
    THEN /\ pc' = case
         /\ recv' = [case |-> case, err |-> err, status |-> status]
    ELSE UNCHANGED <<pc, recv>>

\* return: the deferred calls run before Run is back in runContainer
Return(res) ==
    /\ result' = res
    /\ pc' = "unwind"

\* units.RAMInBytes(opts.MemoryLimit), then ContainerCreate and the defer
\* of ContainerRemove
RunCreate(memOk, createErr) ==
    /\ pc = "entry"
    /\ createErr = "nil" => ~ctxDone
    /\ IF ~memOk
       THEN /\ Return(Result("invalid memory limit", 0))
            /\ UNCHANGED <<defers, ctr, calls>>
       ELSE /\ calls' = Append(calls, Call("create", "ctx"))
            /\ IF createErr = "nil"
               THEN /\ ctr' = "created"
                    /\ defers' = <<"remove">> \o defers
                    /\ pc' = "attach"
                    /\ UNCHANGED result
               ELSE /\ Return(Result(createErr, 0))
                    /\ UNCHANGED <<defers, ctr>>
    /\ UNCHANGED <<recv, rawMode, restores, relayVars, exitCode, attachOpen,
                   wait, waitErr, ctxVars, isTTY, pathVars, credVars,
                   cliVars>>

\* ContainerAttach with its error dropped: a plausible slip that goes on to
\* start the container without a connection to it
RunAttachIgnoringError(ok) ==
    /\ pc = "attach"
    /\ ok => ~ctxDone
    /\ calls' = Append(calls, Call("attach", "ctx"))
    /\ attachOpen' = ok
    /\ defers' = IF ok THEN <<"close">> \o defers ELSE defers
    /\ outPc' = IF ok /\ isTTY THEN "reading" ELSE outPc
    /\ pc' = "start"
    /\ UNCHANGED <<result, recv, rawMode, restores, outputDone, inPc, reads, consumed,
                   fwd, monPc, winches, ctr, exitCode, wait, waitErr, ctxVars,
                   isTTY, pathVars, credVars, cliVars>>

\* ContainerAttach, the defer of attachResp.Close, and in TTY mode the
\* output goroutine reading from the attach stream
RunAttach(ok) ==
    /\ pc = "attach"
    /\ ok => ~ctxDone
    /\ calls' = Append(calls, Call("attach", "ctx"))
    /\ IF ok
       THEN /\ attachOpen' = TRUE
            /\ defers' = <<"close">> \o defers
            /\ outPc' = IF isTTY THEN "reading" ELSE outPc
            /\ pc' = "start"
            /\ UNCHANGED result
       ELSE /\ Return(Result("failed to attach to container", 0))
            /\ UNCHANGED <<attachOpen, defers, outPc>>
    /\ UNCHANGED <<recv, rawMode, restores, outputDone, inPc, reads, consumed, fwd, monPc,
                   winches, ctr, exitCode, wait, waitErr, ctxVars, isTTY,
                   pathVars, credVars, cliVars>>

\* ContainerStart, and in non-TTY mode the goroutine that follows the logs
RunStart(ok) ==
    /\ pc = "start"
    /\ ok => ~ctxDone
    /\ calls' = Append(calls, Call("start", "ctx"))
    /\ IF ok
       THEN /\ ctr' = "running"
            /\ outPc' = IF isTTY THEN outPc ELSE "logs"
            /\ pc' = IF isTTY THEN "resize" ELSE "wait"
            /\ UNCHANGED result
       ELSE /\ Return(Result("failed to start container", 0))
            /\ UNCHANGED <<ctr, outPc>>
    /\ UNCHANGED <<defers, recv, rawMode, restores, outputDone, inPc, reads, consumed, fwd,
                   monPc, winches, exitCode, attachOpen, wait, waitErr, ctxVars,
                   isTTY, pathVars, credVars,
                   cliVars>>

\* r.resizeTty(ctx, containerID): no call when term.GetWinsize fails
RunResize(winsizeOk) ==
    /\ pc = "resize"
    /\ calls' = IF winsizeOk THEN Append(calls, Call("resize", "ctx")) ELSE calls
    /\ pc' = "raw"
    /\ UNCHANGED <<defers, result, recv, rawMode, restores, relayVars, ctr,
                   exitCode, attachOpen, wait, waitErr, ctxVars, isTTY,
                   pathVars, credVars, cliVars>>

\* term.SetRawTerminal without the defer of term.RestoreTerminal: a
\* plausible slip that leaves the terminal in raw mode
RunSetRawWithoutDefer(ok) ==
    /\ pc = "raw"
    /\ IF ok
       THEN /\ rawMode' = TRUE
            /\ monPc' = "watching"
            /\ pc' = "wait"
            /\ UNCHANGED result
       ELSE /\ Return(Result("failed to set raw terminal", 0))
            /\ UNCHANGED <<rawMode, monPc>>
    /\ UNCHANGED <<defers, recv, restores, outPc, outputDone, inPc, reads,
                   consumed, fwd, winches, engineVars, ctxVars, isTTY,
                   pathVars, credVars, cliVars>>

\* term.SetRawTerminal, the defer of term.RestoreTerminal, and
\* go r.monitorTtySize
RunSetRaw(ok) ==
    /\ pc = "raw"
    /\ IF ok
       THEN /\ rawMode' = TRUE
            /\ defers' = <<"restore">> \o defers
            /\ monPc' = "watching"
            /\ pc' = "wait"
            /\ UNCHANGED result
       ELSE /\ Return(Result("failed to set raw terminal", 0))
            /\ UNCHANGED <<rawMode, defers, monPc>>
    /\ UNCHANGED <<recv, restores, outPc, outputDone, inPc, reads, consumed, fwd, winches,
                   engineVars, ctxVars, isTTY, pathVars, credVars,
                   cliVars>>

\* the stdin goroutine is started and ContainerWait is called; a wait call
\* issued on a context that is already done can only report an error
RunWait ==
    /\ pc = "wait"
    /\ inPc' = "reading"
    /\ wait' = IF ctxDone THEN "refused" ELSE "pending"
    /\ calls' = Append(calls, Call("wait", "ctx"))
    /\ pc' = "select"
    /\ UNCHANGED <<defers, result, recv, rawMode, restores, outPc, outputDone,
                   reads, consumed, fwd, monPc, winches, ctr, exitCode, attachOpen,
                   waitErr, ctxVars, isTTY, pathVars, credVars,
                   cliVars>>

\* the cases of the select that can proceed when Run reaches it
ReadyCases ==
    (IF wait = "err" THEN {"caseErr"} ELSE {})
    \cup (IF wait = "status" THEN {"caseStatus"} ELSE {})
    \cup (IF ctxDone THEN {"caseDone"} ELSE {})

\* select with at least one case ready: one of them is chosen
RunSelect(case) ==
    /\ pc = "select"
    /\ case \in ReadyCases
    /\ pc' = case
    /\ recv' = [case |-> case,
                err |-> IF case = "caseErr" THEN waitErr ELSE "nil",
                status |-> IF case = "caseStatus" THEN exitCode ELSE 0]
    /\ wait' = IF case \in {"caseErr", "caseStatus"} THEN "taken" ELSE wait
    /\ UNCHANGED <<defers, result, rawMode, restores, relayVars, ctr, exitCode,
                   attachOpen, waitErr, calls, ctxVars, isTTY, pathVars, credVars,
                   cliVars>>

\* select with no case ready: Run blocks
RunBlock ==
    /\ pc = "select"
    /\ ReadyCases = {}
    /\ pc' = "blocked"
    /\ UNCHANGED <<defers, result, recv, rawMode, restores, relayVars,
                   engineVars, ctxVars, isTTY, pathVars, credVars,
                   cliVars>>

\* case err := <-errCh, after <-outputDone
ErrCaseResult ==
    IF recv.err # "nil" /\ ~ctxDone
    THEN Result("error waiting for container", 0)
    ELSE Result("nil", 0)

\* case status := <-statusCh, after <-outputDone
StatusCaseResult ==
    IF recv.status # 0
    THEN Result("container exited with code", recv.status)
    ELSE Result("nil", 0)

\* The receive from outputDone left out: a plausible slip that judges the
\* outcome while output may still be in flight
OutputNotAwaited == TRUE

\* <-outputDone can proceed: a completion message is in the channel
OutputDrained == outputDone > 0

RunErrCase ==
    /\ pc = "caseErr"
    /\ OutputDrained
    /\ outputDone' = outputDone - 1
    /\ Return(ErrCaseResult)
    /\ UNCHANGED <<defers, recv, rawMode, restores, outPc, inPc, reads, consumed, fwd,
                   monPc, winches, engineVars, ctxVars, isTTY, pathVars, credVars,
                   cliVars>>

RunStatusCase ==
    /\ pc = "caseStatus"
    /\ OutputDrained
    /\ outputDone' = outputDone - 1
    /\ Return(StatusCaseResult)
    /\ UNCHANGED <<defers, recv, rawMode, restores, outPc, inPc, reads, consumed, fwd,
                   monPc, winches, engineVars, ctxVars, isTTY, pathVars, credVars,
                   cliVars>>

\* case <-ctx.Done(): ContainerStop on a fresh context, then return
\* ctx.Err(); the call returns once the container is not running
RunDoneCase(code) ==
    /\ pc = "caseDone"
    /\ calls' = Append(calls, StopCall)
    /\ IF ctr = "running"
       THEN /\ ctr' = "exited"
            /\ exitCode' = code
       ELSE /\ code = exitCode
            /\ UNCHANGED <<ctr, exitCode>>
    /\ Return(Result("context canceled", 0))
    /\ UNCHANGED <<defers, recv, rawMode, restores, relayVars, attachOpen, wait,
                   waitErr, ctxVars, isTTY, pathVars, credVars,
                   cliVars>>

\* the ContainerRemove that Run defers
DeferredRemove == RemoveCall

\* a deferred call runs: term.RestoreTerminal, attachResp.Close or
\* ContainerRemove(context.Background(), ..., Force: true)
RunDeferred ==
    /\ pc = "unwind"
    /\ Len(defers) > 0
    /\ defers' = Tail(defers)
    /\ rawMode' = IF Head(defers) = "restore" THEN FALSE ELSE rawMode
    /\ restores' = IF Head(defers) = "restore" THEN restores + 1 ELSE restores
    /\ attachOpen' = IF Head(defers) = "close" THEN FALSE ELSE attachOpen
    /\ calls' = IF Head(defers) = "remove" THEN Append(calls, DeferredRemove)
                ELSE calls
    /\ ctr' = IF Head(defers) = "remove" THEN "removed" ELSE ctr
    /\ UNCHANGED <<pc, result, recv, relayVars, exitCode, wait, waitErr, ctxVars,
                   isTTY, pathVars, credVars,
                   cliVars>>

\* Run is back in runContainer
RunReturn ==
    /\ pc = "unwind"
    /\ Len(defers) = 0
    /\ pc' = "returned"
    /\ UNCHANGED <<defers, result, recv, rawMode, restores, relayVars,
                   engineVars, ctxVars, isTTY, pathVars, credVars,
                   cliVars>>

\* runContainer returns: its deferred runner.Close() and cancel()
CallerReturn ==
    /\ pc = "returned"
    /\ pc' = "exit"
    /\ CancelCtx("defer")
    /\ UNCHANGED <<defers, result, recv, rawMode, restores, relayVars,
                   engineVars, sigPc, isTTY, pathVars, credVars,
                   cliVars>>

\* TTY mode: attachResp.Reader.Read returns an error once the stream ends,
\* which is when the container has stopped or the attach connection has
\* been closed; the hijacked connection does not follow ctx
OutputEnd ==
    /\ outPc = "reading"
    /\ ctr \in {"exited", "removed"} \/ ~attachOpen
    /\ outPc' = "done"
    /\ outputDone' = outputDone + 1
    /\ UNCHANGED <<ctlVars, inPc, reads, consumed, fwd, monPc, winches, engineVars,
                   ctxVars, isTTY, pathVars, credVars,
                   cliVars>>

\* non-TTY mode: ContainerLogs(ctx, ..., Follow: true)
LogsCall(ok) ==
    /\ outPc = "logs"
    /\ ok => ~ctxDone /\ ctr # "removed"
    /\ calls' = Append(calls, Call("logs", "ctx"))
    /\ IF ok
       THEN /\ outPc' = "copying"
            /\ UNCHANGED outputDone
       ELSE /\ outPc' = "done"
            /\ outputDone' = outputDone + 1
    /\ UNCHANGED <<ctlVars, inPc, reads, consumed, fwd, monPc, winches, ctr, exitCode,
                   attachOpen, wait, waitErr, ctxVars, isTTY, pathVars, credVars,
                   cliVars>>

\* stdcopy.StdCopy returns: the followed log stream ends when the container
\* has stopped, and reading its body fails once ctx is done
LogsEnd ==
    /\ outPc = "copying"
    /\ ctr \in {"exited", "removed"} \/ ctxDone
    /\ outPc' = "done"
    /\ outputDone' = outputDone + 1
    /\ UNCHANGED <<ctlVars, inPc, reads, consumed, fwd, monPc, winches, engineVars,
                   ctxVars, isTTY, pathVars, credVars,
                   cliVars>>

\* The write with the interrupt bytes taken out in every mode: a plausible
\* slip that filters the input of a non-interactive session too
ForwardedWithoutInterrupt(chunk) ==
    SelectSeq(chunk, LAMBDA b : b # InterruptByte)

\* attachResp.Conn.Write(buf[:n]): the bytes written for a chunk
Forwarded(chunk) == chunk

\* the stdin goroutine reads a chunk: in TTY mode an interrupt byte calls
\* cancel() and ends the goroutine before anything of the chunk is written;
\* otherwise the chunk is written to the attach connection
StdinRead(chunk) ==
    /\ inPc = "reading"
    /\ pc # "exit"
    /\ reads < MaxReads
    /\ reads' = reads + 1
    /\ consumed' = consumed \o chunk
    /\ IF isTTY /\ HasInterrupt(chunk)
       THEN /\ CancelCtx("byte")
            /\ Wake("caseDone", "nil", 0)
            /\ inPc' = "done"
            /\ UNCHANGED fwd
       ELSE /\ fwd' = IF attachOpen THEN fwd \o Forwarded(chunk) ELSE fwd
            /\ inPc' = IF attachOpen THEN "reading" ELSE "done"
            /\ UNCHANGED <<pc, recv, cancelBy, cancelAt>>
    /\ UNCHANGED <<defers, result, rawMode, restores, outPc, outputDone, monPc,
                   winches, engineVars, sigPc, isTTY, pathVars, credVars,
                   cliVars>>

\* os.Stdin.Read fails (end of input): break, attachResp.CloseWrite()
StdinEnd ==
    /\ inPc = "reading"
    /\ pc # "exit"
    /\ inPc' = "done"
    /\ UNCHANGED <<ctlVars, outPc, outputDone, reads, consumed, fwd, monPc, winches,
                   engineVars, ctxVars, isTTY, pathVars, credVars,
                   cliVars>>

\* monitorTtySize: case <-sigCh
MonitorWinch(winsizeOk) ==
    /\ monPc = "watching"
    /\ pc # "exit"
    /\ winches < MaxWinch
    /\ winches' = winches + 1
    /\ calls' = IF winsizeOk THEN Append(calls, Call("resize", "ctx")) ELSE calls
    /\ UNCHANGED <<ctlVars, outPc, outputDone, inPc, reads, consumed, fwd, monPc, ctr,
                   exitCode, attachOpen, wait, waitErr, ctxVars, isTTY,
                   pathVars, credVars, cliVars>>

\* monitorTtySize: case <-ctx.Done()
MonitorDone ==
    /\ monPc = "watching"
    /\ ctxDone
    /\ monPc' = "done"
    /\ UNCHANGED <<ctlVars, outPc, outputDone, inPc, reads, consumed, fwd, winches,
                   engineVars, ctxVars, isTTY, pathVars, credVars,
                   cliVars>>

\* runContainer's signal goroutine: <-sigCh (SIGINT or SIGTERM), cancel()
Signal ==
    /\ sigPc = "waiting"
    /\ pc \notin {"returned", "exit"}
    /\ sigPc' = "done"
    /\ CancelCtx("signal")
    /\ Wake("caseDone", "nil", 0)
    /\ UNCHANGED <<defers, result, rawMode, restores, relayVars, engineVars,
                   isTTY, pathVars, credVars,
                   cliVars>>

\* the main process of the container ends by itself
ContainerExit(code) ==
    /\ ctr = "running"
    /\ ctr' = "exited"
    /\ exitCode' = code
    /\ UNCHANGED <<ctlVars, relayVars, attachOpen, wait, waitErr, calls,
                   ctxVars, isTTY, pathVars, credVars,
                   cliVars>>

\* ContainerWait's goroutine has the response for WaitConditionNotRunning:
\* it sends on the unbuffered result channel
WaitStatus ==
    /\ wait = "pending"
    /\ ctr = "exited"
    /\ Wake("caseStatus", "nil", exitCode)
    /\ wait' = IF pc = "blocked" THEN "taken" ELSE "status"
    /\ UNCHANGED <<defers, result, rawMode, restores, relayVars, ctr, exitCode,
                   attachOpen, waitErr, calls, ctxVars, isTTY, pathVars, credVars,
                   cliVars>>

\* ContainerWait's goroutine: the request or the read of its response
\* fails because ctx is done; the error goes to the buffered error channel
WaitCtxError ==
    /\ wait \in {"pending", "refused"}
    /\ ctxDone
    /\ waitErr' = "context canceled"
    /\ Wake("caseErr", "context canceled", 0)
    /\ wait' = IF pc = "blocked" THEN "taken" ELSE "err"
    /\ UNCHANGED <<defers, result, rawMode, restores, relayVars, ctr, exitCode,
                   attachOpen, calls, ctxVars, isTTY, pathVars, credVars,
                   cliVars>>

\* ContainerWait's goroutine: the call fails for a reason of the engine's
\* (connection lost, daemon error) while ctx is not done
WaitEngineError ==
    /\ wait = "pending"
    /\ ~ctxDone
    /\ waitErr' = "engine error"
    /\ Wake("caseErr", "engine error", 0)
    /\ wait' = IF pc = "blocked" THEN "taken" ELSE "err"
    /\ UNCHANGED <<defers, result, rawMode, restores, relayVars, ctr, exitCode,
                   attachOpen, calls, ctxVars, isTTY, pathVars, credVars,
                   cliVars>>

\* the runner before Run is called
RunEntry ==
    /\ pc = "entry"
    /\ defers = <<>>
    /\ result = NoResult
    /\ recv = NothingReceived
    /\ rawMode = FALSE
    /\ restores = 0
    /\ outPc = "none"
    /\ outputDone = 0
    /\ inPc = "none"
    /\ reads = 0
    /\ consumed = <<>>
    /\ fwd = <<>>
    /\ monPc = "none"
    /\ winches = 0
    /\ ctr = "none"
    /\ exitCode = 0
    /\ attachOpen = FALSE
    /\ wait = "none"
    /\ waitErr = "nil"
    /\ calls = <<>>
    /\ cancelBy = {}
    /\ sigPc = "waiting"
    /\ cancelAt = [fired |-> FALSE, ctr |-> "none", pc |-> "entry", wait |-> "none"]

\* no Run in progress: the state of the runner in the specifications that
\* exercise the validators and the assembly of the request
RunIdle ==
    /\ isTTY = FALSE
    /\ RunEntry

----------------------------------------------------------------------------
(* SpecCli: runContainer on bounded hosts, flags and configurations *)

T(comps) == Raw("tilde", comps)

\* a home directory with the usual credential files, a project, a link into
\* ~/.gnupg and a link to ~/.netrc
FsFull ==
    [dirs |-> { <<"home">>, Home, <<"etc">>, <<"run">> }
              \cup { Home \o d : d \in { <<"proj">>, <<".gnupg">>, <<".ssh">>,
                                         <<".aws">>, <<".config">>,
                                         <<".config", "gh">>,
                                         <<".config", "gcloud">>,
                                         <<".claude">>, <<".docker">> } },
     files |-> { <<"etc", "ca.crt">>, <<"run", "agent.sock">> }
               \cup { Home \o f : f \in { <<".netrc">>,
                                          <<".gnupg", "..c">>,
                                          <<".gnupg", "S.gpg-agent.ssh">>,
                                          <<".ssh", "id_a">>,
                                          <<".ssh", "known_hosts">>,
                                          <<".aws", "credentials">>,
                                          <<".aws", "config">>,
                                          <<".config", "gh", "hosts.yml">>,
                                          <<".config", "gcloud",
                                            "application_default_credentials.json">>,
                                          <<".docker", "config.json">>,
                                          <<"proj", "sa.json">> } },
     links |-> [l \in { Home \o <<"lnk">>, Home \o <<"proj", "key">> } |->
                   IF l = Home \o <<"lnk">> THEN Home \o <<".gnupg">>
                   ELSE Home \o <<".netrc">>]]

\* a home directory with a project and nothing else
FsBare ==
    [dirs |-> { <<"home">>, Home, Home \o <<"proj">> },
     files |-> {},
     links |-> [l \in {} |-> <<>>]]

EnvNone == EmptyEnv
EnvTokens ==
    [k \in {"TERM", "ANTHROPIC_API_KEY", "GH_TOKEN", "GITHUB_TOKEN",
            "GOOGLE_APPLICATION_CREDENTIALS", "SSH_AUTH_SOCK"} |->
        CASE k = "TERM" -> "xterm"
          [] k = "ANTHROPIC_API_KEY" -> "sk-k"
          [] k = "GH_TOKEN" -> "t1"
          [] k = "GITHUB_TOKEN" -> "t2"
          [] k = "GOOGLE_APPLICATION_CREDENTIALS" ->
                AbsString(Home \o <<"proj", "sa.json">>)
          [] k = "SSH_AUTH_SOCK" -> AbsString(<<"run", "agent.sock">>)]
EnvGpgAgent ==
    [k \in {"GITHUB_TOKEN", "GOOGLE_APPLICATION_CREDENTIALS", "SSH_AUTH_SOCK"} |->
        CASE k = "GITHUB_TOKEN" -> "t2"
          [] k = "GOOGLE_APPLICATION_CREDENTIALS" ->
                AbsString(Home \o <<".netrc">>)
          [] k = "SSH_AUTH_SOCK" ->
                AbsString(Home \o <<".gnupg", "S.gpg-agent.ssh">>)]
EnvAwsConfig ==
    [k \in {"GOOGLE_APPLICATION_CREDENTIALS", "GH_TOKEN"} |->
        IF k = "GH_TOKEN" THEN ""
        ELSE AbsString(Home \o <<".aws", "config">>)]

HostOf(fs, env, homeOk) ==
    [fs |-> fs, env |-> env, homeOk |-> homeOk, cwdOk |-> TRUE,
     cwd |-> Home \o <<"proj">>]

Hosts ==
    { HostOf(FsFull, EnvTokens, TRUE),
      HostOf(FsFull, EnvGpgAgent, TRUE),
      HostOf(FsFull, EnvAwsConfig, TRUE),
      HostOf(FsBare, EnvNone, TRUE),
      HostOf(FsFull, EnvTokens, FALSE) }

\* "" stands for no --workdir flag
WorkdirChoices ==
    { EmptyPath, T(<<".gnupg">>), T(<<"lnk">>), T(<<".netrc", "x">>) }

MountChoices ==
    { <<>>,
      <<T(<<"proj", "lib">>), T(<<".ssh">>)>>,
      <<T(<<".gnupg", "..c">>)>>,
      <<Raw("rel", <<"..", ".aws", "config">>), T(<<".netrc">>)>> }

MountRoChoices ==
    { <<>>,
      <<T(<<>>)>>,
      <<T(<<"lnk", "..c">>)>>,
      <<T(<<".config", "gh">>), Raw("abs", <<"etc">>)>> }

DefaultChoices ==
    { <<>>,
      <<[Path |-> T(<<".kube", "config">>), ReadOnly |-> TRUE],
        [Path |-> T(<<"proj", "key">>), ReadOnly |-> TRUE],
        [Path |-> T(<<".netrc", "x">>), ReadOnly |-> FALSE],
        [Path |-> T(<<".ssh", "id_a">>), ReadOnly |-> FALSE]>> }

EnvironmentChoices ==
    { [Passthrough |-> <<"TERM", "COLORTERM", "EDITOR">>, Custom |-> EmptyEnv],
      [Passthrough |-> <<"TERM", "GH_TOKEN">>,
       Custom |-> [k \in {"GH_TOKEN", "DEBUG"} |->
                     IF k = "DEBUG" THEN "false" ELSE "c1"]],
      [Passthrough |-> <<"ANTHROPIC_API_KEY", "EDITOR", "SSH_AUTH_SOCK">>,
       Custom |-> [k \in {"ANTHROPIC_API_KEY",
                          "GOOGLE_APPLICATION_CREDENTIALS"} |->
                     IF k = "ANTHROPIC_API_KEY" THEN "c2" ELSE "c3"]] }

ClaudeChoices ==
    { [Auth |-> AuthAuto, SessionDir |-> ""],
      [Auth |-> AuthSession, SessionDir |-> SessionReadWrite] }

SSHOff ==
    [Enabled |-> FALSE, Keys |-> <<>>, KnownHosts |-> TRUE,
     AgentForwarding |-> TRUE]
SSHChoices ==
    { SSHOff,
      [Enabled |-> TRUE, Keys |-> <<T(<<".ssh", "id_a">>)>>,
       KnownHosts |-> FALSE, AgentForwarding |-> FALSE],
      [Enabled |-> TRUE,
       Keys |-> <<T(<<".aws", "config">>), T(<<".netrc">>), T(<<".ssh">>)>>,
       KnownHosts |-> TRUE, AgentForwarding |-> TRUE] }

CredsDefault == [GitHub |-> CredentialAuto, GCloud |-> CredentialAuto, SSH |-> SSHOff]
CredsChoices ==
    { [GitHub |-> CredentialAuto, GCloud |-> CredentialEnabled, SSH |-> ssh] :
        ssh \in SSHChoices }
    \cup { [GitHub |-> CredentialDisabled, GCloud |-> CredentialDisabled,
            SSH |-> ssh] : ssh \in SSHChoices }

CACertChoices ==
    { <<>>,
      <<Raw("abs", <<"etc", "ca.crt">>), T(<<".docker", "config.json">>),
        T(<<".aws", "config">>), T(<<"missing.pem">>)>> }

NothingRead ==
    [workdir |-> EmptyPath, mount |-> <<>>, mountRo |-> <<>>,
     defaults |-> <<>>, passthrough |-> <<>>, custom |-> EmptyEnv,
     claude |-> [Auth |-> "", SessionDir |-> ""], noExtCreds |-> FALSE,
     creds |-> [GitHub |-> "", GCloud |-> "", SSH |-> SSHOff],
     caCerts |-> <<>>, engineUp |-> FALSE]

IdleHost ==
    [fs |-> FsBare, env |-> EnvNone, homeOk |-> TRUE, cwdOk |-> TRUE,
     cwd |-> Home]

\* config.Config, of its Claude and Credentials sections
ClaudeDefault == [Auth |-> "", SessionDir |-> ""]
CfgOf(claude, creds) == [Claude |-> claude, Credentials |-> creds]

\* no collector has been called yet
NotCollected ==
    [claude |-> [mounts |-> <<>>, env |-> EmptyEnv],
     ext |-> [mounts |-> <<>>, env |-> EmptyEnv, err |-> "pending"],
     noExtCreds |-> FALSE,
     added |-> [mounts |-> <<>>, env |-> EmptyEnv, err |-> "pending"]]

\* a key of the configuration that nothing sets is <<>>, one that is set
\* to v is <<v>>
Unset == <<>>
\* no config file and no flag
NoUserConfig ==
    [fileAuth |-> Unset, fileSessionDir |-> Unset, fileClaudeDir |-> Unset,
     flagSessionDir |-> Unset, unmarshalOk |-> TRUE]

CredIdle ==
    /\ crCfg = CfgOf(ClaudeDefault, CredsDefault)
    /\ crOut = NotCollected
    /\ cfgIn = NoUserConfig
    /\ cfgLoaded = FALSE

\* runContainer has not been entered
CliIdle ==
    /\ host = IdleHost
    /\ rcIn = NothingRead
    /\ rcPc = "idle"
    /\ rcMounts = <<>>
    /\ rcEnv = EmptyEnv
    /\ rcCACerts = <<>>
    /\ rcErr = "nil"

\* ExpandPath has not been called yet
NotExpanded ==
    [expanded |-> [err |-> "pending", path |-> <<>>], lax |-> <<"pending">>]

PathIdle ==
    /\ vPath = <<>>
    /\ vHomeOk = TRUE
    /\ vOut = [lax |-> <<"pending">>, strict |-> <<"pending">>]
    /\ xRaw = EmptyPath
    /\ xOut = NotExpanded

InitCli ==
    /\ host \in Hosts
    /\ rcIn = NothingRead
    /\ rcPc = "workdir"
    /\ rcMounts = <<>>
    /\ rcEnv = EmptyEnv
    /\ rcCACerts = <<>>
    /\ rcErr = "nil"
    /\ PathIdle
    /\ CredIdle
    /\ RunIdle

NextCli ==
    \/ \E flag \in WorkdirChoices : RcWorkdir(flag)
    \/ \E list \in MountChoices : RcMount(list)
    \/ \E list \in MountRoChoices : RcMountRo(list)
    \/ \E list \in DefaultChoices : RcDefaults(list)
    \/ \E e \in EnvironmentChoices : RcEnvironment(e.Passthrough, e.Custom)
    \/ \E claude \in ClaudeChoices : RcClaudeAuth(claude)
    \/ \E creds \in CredsChoices : RcExternal(FALSE, creds)
    \/ RcExternal(TRUE, CredsDefault)
    \/ \E list \in CACertChoices : RcCACerts(list)
    \/ \E engineUp \in BOOLEAN : RcRun(engineUp)

SpecCli == InitCli /\ [][NextCli]_vars

----------------------------------------------------------------------------
(* SpecPath: the validators applied to bounded sets of cleaned absolute    *)
(* paths                                                                   *)

Alphabet == {".", "c"}

RECURSIVE StringsOfLen(_)
StringsOfLen(n) ==
    IF n = 0 THEN {""}
    ELSE {s \o a : s \in StringsOfLen(n - 1), a \in Alphabet}

\* every component name over the alphabet ("." and ".." are no names of a
\* cleaned path)
GenNames ==
    UNION {StringsOfLen(n) : n \in 1..MaxNameLen} \ {".", ".."}

\* suffixes that turn a rule's last name into a sibling that has it as a
\* string prefix (~/.netrc.bak, ~/.gnupg2)
Suffixes == {".bak", "2"}

AllRules == SeqToSet(HardcodedDeniedPaths) \cup SeqToSet(CredentialControlledPaths)

Bases ==
    UNION {Prefixes(Home \o r) : r \in AllRules}
    \cup {Home \o Parent(r) \o <<Last(r) \o sfx>> : r \in AllRules, sfx \in Suffixes}

RECURSIVE TailsOfLen(_)
TailsOfLen(n) ==
    IF n = 0 THEN {<<>>}
    ELSE {t \o <<c>> : t \in TailsOfLen(n - 1), c \in GenNames}

Tails == UNION {TailsOfLen(n) : n \in 0..MaxTail}

PathInputs == {b \o t : b \in Bases, t \in Tails}

\* no validator has been called yet
Pending == [lax |-> <<"pending">>, strict |-> <<"pending">>]

InitPath ==
    /\ vPath \in PathInputs
    /\ vHomeOk \in BOOLEAN
    /\ vOut = Pending
    /\ xRaw = EmptyPath
    /\ xOut = NotExpanded
    /\ CredIdle
    /\ CliIdle
    /\ RunIdle

\* one call of each validator on the same path
Validate ==
    /\ vOut = Pending
    /\ vOut' = [lax |-> ValidateMountPath(vPath, vHomeOk),
                strict |-> ValidateMountPathStrict(vPath, vHomeOk)]
    /\ UNCHANGED <<vPath, vHomeOk, xRaw, xOut>>

NextPath == Validate /\ UNCHANGED <<credVars, cliVars, runVars>>

SpecPath == InitPath /\ [][NextPath]_vars

----------------------------------------------------------------------------
(* SpecExpand: ExpandPath, and ValidateMountPath on what it returns, applied *)
(* to bounded sets of paths as the user writes them and of hosts            *)

\* a home directory below /home with ~/.gnupg, ~/.netrc, a project, links
\* to ~/.gnupg and to ~/.netrc, a link to itself and a link to nothing
FsLinks ==
    [dirs |-> { <<"home">>, Home, <<"etc">> }
              \cup { Home \o d : d \in { <<"proj">>, <<".gnupg">> } },
     files |-> { <<"etc", "ca.crt">> }
               \cup { Home \o f : f \in { <<".netrc">>, <<".gnupg", "key">>,
                                          <<"proj", "a">> } },
     links |-> [l \in { Home \o <<"lnk">>, Home \o <<"proj", "key">>,
                        Home \o <<"loop">>, Home \o <<"dangling">> } |->
                   CASE l = Home \o <<"lnk">> -> Home \o <<".gnupg">>
                     [] l = Home \o <<"proj", "key">> -> Home \o <<".netrc">>
                     [] l = Home \o <<"loop">> -> Home \o <<"loop">>
                     [] l = Home \o <<"dangling">> -> Home \o <<"gone">>]]

\* the same home directory kept below /data, with /home a link to /data
\* ($HOME is still /home/u)
FsLinkedHome ==
    [dirs |-> { <<"data">>, <<"data", "u">>, <<"etc">> }
              \cup { <<"data", "u">> \o d : d \in { <<"proj">>, <<".gnupg">> } },
     files |-> { <<"etc", "ca.crt">> }
               \cup { <<"data", "u">> \o f :
                        f \in { <<".netrc">>, <<".gnupg", "key">>,
                                <<"proj", "a">> } },
     links |-> [l \in { <<"home">>, <<"data", "u", "lnk">> } |->
                   IF l = <<"home">> THEN <<"data">>
                   ELSE <<"data", "u", ".gnupg">>]]

ExpandHosts ==
    { [fs |-> fs, env |-> EnvNone, homeOk |-> homeOk, cwdOk |-> cwdOk,
       cwd |-> Home \o <<"proj">>] :
        fs \in {FsLinks, FsLinkedHome, FsBare},
        homeOk \in BOOLEAN, cwdOk \in BOOLEAN }

\* paths as the user writes them: below a denied rule, through links, with
\* components that do not exist, through a file, relative, with dots, empty
RawInputs ==
    { EmptyPath, T(<<>>), T(<<".gnupg">>), T(<<".gnupg", "key">>),
      T(<<".gnupg", "new">>), T(<<".netrc">>), T(<<".netrc", "x">>),
      T(<<"lnk">>), T(<<"lnk", "key">>), T(<<"lnk", "new">>),
      T(<<"lnk", "new", "deeper">>), T(<<"proj", "key">>),
      T(<<"proj", "a">>), T(<<"proj", "new">>), T(<<"loop">>),
      T(<<"dangling">>), T(<<"proj", "..", ".gnupg", ".", "key">>),
      Raw("abs", <<>>), Raw("abs", <<"etc", "ca.crt">>),
      Raw("abs", <<"data", "u", ".gnupg">>), Raw("abs", <<"srv", "new">>),
      Raw("rel", <<"a">>), Raw("rel", <<"new">>),
      Raw("rel", <<"..", ".gnupg", "key">>), Raw("rel", <<"..", "lnk", "new">>),
      Raw("rel", <<".">>) }

InitExpand ==
    /\ host \in ExpandHosts
    /\ xRaw \in RawInputs
    /\ xOut = NotExpanded
    /\ vPath = <<>>
    /\ vHomeOk = TRUE
    /\ vOut = [lax |-> <<"pending">>, strict |-> <<"pending">>]
    /\ rcIn = NothingRead
    /\ rcPc = "idle"
    /\ rcMounts = <<>>
    /\ rcEnv = EmptyEnv
    /\ rcCACerts = <<>>
    /\ rcErr = "nil"
    /\ CredIdle
    /\ RunIdle

\* expanded, err := security.ExpandPath(p), and when that succeeds
\* security.ValidateMountPath(expanded), as runContainer calls them
Expand ==
    /\ xOut = NotExpanded
    /\ LET expanded == ExpandPath(host, xRaw)
       IN  xOut' = [expanded |-> expanded,
                    lax |-> IF expanded.err = "nil"
                            THEN ValidateMountPath(expanded.path, host.homeOk)
                            ELSE <<"pending">>]
    /\ UNCHANGED <<vPath, vHomeOk, vOut, xRaw>>

NextExpand == Expand /\ UNCHANGED <<credVars, cliVars, runVars>>

SpecExpand == InitExpand /\ [][NextExpand]_vars

----------------------------------------------------------------------------
(* SpecCred: the credential collectors applied to bounded sets of          *)
(* configurations, environments and file systems                           *)

\* most entries of cfg.Credentials.SSH.Keys
MaxKeys == 2

\* the files and directories below the home directory that the collectors
\* look for, and a link to the key
ClaudeDir == Home \o <<".claude">>
GhHostsFile == Home \o <<".config", "gh", "hosts.yml">>
AdcFile == Home \o <<".config", "gcloud", "application_default_credentials.json">>
SaFile == Home \o <<"proj", "sa.json">>
KeyFile == Home \o <<".ssh", "id_a">>
KnownHostsFile == Home \o <<".ssh", "known_hosts">>
KeyLink == Home \o <<"klink">>
Lookups == {ClaudeDir, GhHostsFile, AdcFile, SaFile, KeyFile, KnownHostsFile}

\* a file system in which the paths of `dirs` are directories and those of
\* `files` are files, with the directories above them; ~/klink is a link
\* to ~/.ssh/id_a
FsOf(dirs, files) ==
    [dirs |-> UNION {Prefixes(d) \ {<<>>} : d \in dirs \cup {Home}}
              \cup UNION {Prefixes(Parent(f)) \ {<<>>} : f \in files},
     files |-> files \cup {<<"run", "agent.sock">>},
     links |-> [l \in {KeyLink} |-> KeyFile]]

\* every choice of which of `paths` exist; `odd` is a path that exists with
\* the other type (~/.claude a file, a looked-up file a directory), <<>>
\* for none
FileSystemsOver(paths, odds) ==
    { FsOf((({ClaudeDir} \cap present) \ {odd}) \cup ({odd} \cap (Lookups \ {ClaudeDir})),
           ((present \ {ClaudeDir}) \ {odd}) \cup ({odd} \cap {ClaudeDir})) :
        present \in SUBSET paths, odd \in odds \cup {<<>>} }

\* the variables the collectors read, each unset or set
EnvValue(k) ==
    CASE k = "ANTHROPIC_API_KEY" -> "sk-k"
      [] k = "GH_TOKEN" -> "t1"
      [] k = "GITHUB_TOKEN" -> "t2"
      [] k = "GOOGLE_APPLICATION_CREDENTIALS" -> AbsString(SaFile)
      [] k = "SSH_AUTH_SOCK" -> AbsString(<<"run", "agent.sock">>)
CredEnvKeys ==
    {"ANTHROPIC_API_KEY", "GH_TOKEN", "GITHUB_TOKEN",
     "GOOGLE_APPLICATION_CREDENTIALS", "SSH_AUTH_SOCK"}
EnvOf(set) == [k \in set |-> EnvValue(k)]
\* each of `keys` unset or set, or all of them set to ""
EnvironmentsOver(keys) ==
    {EnvOf(set) : set \in SUBSET keys} \cup {[k \in keys |-> ""]}

AuthChoices == {"", AuthAuto, AuthSession, AuthAPIKey}
SessionDirChoices == {"", SessionNone, SessionReadOnly, SessionReadWrite}
PolicyChoices == {"", CredentialAuto, CredentialEnabled, CredentialDisabled}

KeyPaths ==
    { T(<<".ssh", "id_a">>), T(<<".ssh">>), T(<<"klink">>),
      T(<<".ssh", "id_b">>), EmptyPath }
RECURSIVE KeyListsOfLen(_)
KeyListsOfLen(n) ==
    IF n = 0 THEN {<<>>}
    ELSE {<<k>> \o rest : k \in KeyPaths, rest \in KeyListsOfLen(n - 1)}
KeyLists == UNION {KeyListsOfLen(n) : n \in 0..MaxKeys}

SSHOn ==
    [Enabled |-> TRUE, Keys |-> <<T(<<".ssh", "id_a">>)>>,
     KnownHosts |-> TRUE, AgentForwarding |-> TRUE]
\* CollectClaudeAuth: every mode against ~/.claude being a directory, a
\* file or missing and the key being unset, set or empty
ClaudeCases ==
    { [host |-> HostOf(fs, env, homeOk),
       cfg |-> CfgOf([Auth |-> auth, SessionDir |-> dir], CredsDefault)] :
        auth \in AuthChoices, dir \in SessionDirChoices,
        fs \in FileSystemsOver({ClaudeDir}, {ClaudeDir}),
        env \in EnvironmentsOver({"ANTHROPIC_API_KEY"}),
        homeOk \in BOOLEAN }

\* GitHub and GCloud: every pair of policies, with the SSH gate off or on,
\* against every choice of the token variables and of the services' files
ServiceCases ==
    { [host |-> HostOf(fs, env, TRUE),
       cfg |-> CfgOf(ClaudeDefault,
                     [GitHub |-> gh, GCloud |-> gc, SSH |-> ssh])] :
        gh \in PolicyChoices, gc \in PolicyChoices, ssh \in {SSHOff, SSHOn},
        fs \in FileSystemsOver({GhHostsFile, AdcFile, SaFile},
                               {GhHostsFile, SaFile}),
        env \in EnvironmentsOver(CredEnvKeys \ {"ANTHROPIC_API_KEY"}) }

\* SSH: every key list and toggle behind the open gate, and the closed
\* gate with one key, against the key and known_hosts existing or not and
\* the agent socket being set or not
SSHCases ==
    { [host |-> HostOf(fs, env, TRUE),
       cfg |-> CfgOf(ClaudeDefault,
                     [GitHub |-> CredentialDisabled, GCloud |-> CredentialAuto,
                      SSH |-> [Enabled |-> gate[1], Keys |-> gate[2],
                               KnownHosts |-> kh, AgentForwarding |-> af]])] :
        gate \in ({TRUE} \X KeyLists) \cup {<<FALSE, SSHOn.Keys>>},
        kh \in BOOLEAN, af \in BOOLEAN,
        fs \in FileSystemsOver({KeyFile, KnownHostsFile}, {KeyFile}),
        env \in EnvironmentsOver({"SSH_AUTH_SOCK"}) }

\* os.UserHomeDir() fails: $HOME is not set
NoHomeCases ==
    { [host |-> HostOf(fs, env, FALSE),
       cfg |-> CfgOf(ClaudeDefault, [GitHub |-> p, GCloud |-> p, SSH |-> ssh])] :
        p \in PolicyChoices, ssh \in {SSHOff, SSHOn},
        fs \in {FsOf({}, {}), FsOf({ClaudeDir}, Lookups \ {ClaudeDir})},
        env \in {EnvOf({}), EnvOf(CredEnvKeys)} }

CredCases == ClaudeCases \cup ServiceCases \cup SSHCases \cup NoHomeCases

InitCred ==
    /\ \E case \in CredCases :
          /\ host = case.host
          /\ crCfg = case.cfg
    /\ crOut = NotCollected
    /\ cfgIn = NoUserConfig
    /\ cfgLoaded = FALSE
    /\ rcIn = NothingRead
    /\ rcPc = "idle"
    /\ rcMounts = <<>>
    /\ rcEnv = EmptyEnv
    /\ rcCACerts = <<>>
    /\ rcErr = "nil"
    /\ PathIdle
    /\ RunIdle

\* one call of each collector on the same configuration and host, and what
\* runContainer takes from the external one under the flag
Collect(noExtCreds) ==
    /\ crOut = NotCollected
    /\ crOut' = [claude |-> CollectClaudeAuth(crCfg.Claude, host),
                 ext |-> CollectExternalCredentials(crCfg.Credentials, host),
                 noExtCreds |-> noExtCreds,
                 added |-> ExternalContribution(noExtCreds,
                                                crCfg.Credentials, host)]
    /\ UNCHANGED <<crCfg, cfgIn, cfgLoaded, pathVars, cliVars, runVars>>

NextCred == \E noExtCreds \in BOOLEAN : Collect(noExtCreds)

SpecCred == InitCred /\ [][NextCred]_vars

----------------------------------------------------------------------------
(* SpecConfig: LoadConfig on bounded sets of config files and flags, and   *)
(* CollectClaudeAuth on the configuration it returns                       *)

\* viper's value of a key: the flag bound to it when the flag was given,
\* else the config file's, else the default set for it
ViperGet(flag, file, default) ==
    IF flag # Unset THEN flag[1]
    ELSE IF file # Unset THEN file[1]
    ELSE default

\* setDefaults: claude.auth, claude.session_dir; mounts.claude_dir has none
\* and is the zero value when the file does not set it
DefaultAuth == "auto"
DefaultSessionDir == "readonly"

\* defaultConfig(), of its Claude and Credentials sections
defaultConfig ==
    CfgOf([Auth |-> "auto", SessionDir |-> "readonly"], CredsDefault)

\* LoadConfig(): setDefaults, viper.Unmarshal, and the migration of
\* mounts.claude_dir
LoadConfig(in) ==
    IF ~in.unmarshalOk THEN defaultConfig
    ELSE LET auth == ViperGet(Unset, in.fileAuth, DefaultAuth)
             sessionDir == ViperGet(in.flagSessionDir, in.fileSessionDir,
                                    DefaultSessionDir)
             claudeDir == ViperGet(Unset, in.fileClaudeDir, "")
         IN  CfgOf([Auth |-> auth,
                    SessionDir |-> IF sessionDir = "" /\ claudeDir # ""
                                   THEN claudeDir
                                   ELSE sessionDir],
                   CredsDefault)

\* what a config file or a flag may give for a session-directory mode: the
\* three modes, the empty string and a word that is none of them
ModeWords == {"", SessionNone, SessionReadOnly, SessionReadWrite, "read-only"}
SettingsOf(words) == {Unset} \cup {<<w>> : w \in words}
UserConfigs ==
    { [fileAuth |-> auth, fileSessionDir |-> sessionDir,
       fileClaudeDir |-> claudeDir, flagSessionDir |-> flag,
       unmarshalOk |-> ok] :
        auth \in SettingsOf({AuthSession, AuthAPIKey}),
        sessionDir \in SettingsOf(ModeWords),
        claudeDir \in SettingsOf(ModeWords),
        flag \in SettingsOf(ModeWords \ {""}),
        ok \in BOOLEAN }

\* the host has a ~/.claude directory
ConfigHost == HostOf(FsOf({ClaudeDir}, {}), EnvOf({}), TRUE)

InitConfig ==
    /\ cfgIn \in UserConfigs
    /\ cfgLoaded = FALSE
    /\ crCfg = CfgOf(ClaudeDefault, CredsDefault)
    /\ crOut = NotCollected
    /\ host = ConfigHost
    /\ rcIn = NothingRead
    /\ rcPc = "idle"
    /\ rcMounts = <<>>
    /\ rcEnv = EmptyEnv
    /\ rcCACerts = <<>>
    /\ rcErr = "nil"
    /\ PathIdle
    /\ RunIdle

\* cfg = config.LoadConfig()
Load ==
    /\ ~cfgLoaded
    /\ crCfg' = LoadConfig(cfgIn)
    /\ cfgLoaded' = TRUE
    /\ UNCHANGED <<crOut, cfgIn, pathVars, cliVars, runVars>>

NextConfig ==
    \/ Load
    \/ cfgLoaded /\ Collect(FALSE)

SpecConfig == InitConfig /\ [][NextConfig]_vars

----------------------------------------------------------------------------
(* Spec: one session of Runner.Run, in TTY and in non-TTY mode, with the   *)
(* signal handler, the relays, the waiter and the container running        *)
(* concurrently                                                            *)

CreateErrors == {"nil", "image not found", "failed to create container"}

Init ==
    /\ isTTY \in BOOLEAN
    /\ RunEntry
    /\ PathIdle
    /\ CredIdle
    /\ CliIdle

Control ==
    \/ \E memOk \in BOOLEAN, createErr \in CreateErrors : RunCreate(memOk, createErr)
    \/ \E ok \in BOOLEAN : RunAttach(ok)
    \/ \E ok \in BOOLEAN : RunStart(ok)
    \/ \E winsizeOk \in BOOLEAN : RunResize(winsizeOk)
    \/ \E ok \in BOOLEAN : RunSetRaw(ok)
    \/ RunWait
    \/ \E case \in {"caseErr", "caseStatus", "caseDone"} : RunSelect(case)
    \/ RunBlock
    \/ RunErrCase
    \/ RunStatusCase
    \/ \E code \in 0..MaxExit : RunDoneCase(code)
    \/ RunDeferred
    \/ RunReturn

Next ==
    \/ Control
    \/ CallerReturn
    \/ OutputEnd
    \/ \E ok \in BOOLEAN : LogsCall(ok)
    \/ LogsEnd
    \/ \E chunk \in Chunks : StdinRead(chunk)
    \/ StdinEnd
    \/ \E winsizeOk \in BOOLEAN : MonitorWinch(winsizeOk)
    \/ MonitorDone
    \/ Signal
    \/ \E code \in 0..MaxExit : ContainerExit(code)
    \/ WaitStatus
    \/ WaitCtxError
    \/ WaitEngineError

Spec == Init /\ [][Next]_vars

\* The control task, the relays and the tasks of the client keep running
\* while they can take a step, every engine call returns, and the output
\* stream ends once the container has stopped.  Nothing makes the
\* container exit by itself, the user type, or a signal arrive.
Fairness ==
    /\ WF_vars(Control)
    /\ WF_vars(CallerReturn)
    /\ WF_vars(OutputEnd)
    /\ WF_vars(\E ok \in BOOLEAN : LogsCall(ok))
    /\ WF_vars(LogsEnd)
    /\ WF_vars(MonitorDone)
    /\ WF_vars(WaitStatus)
    /\ WF_vars(WaitCtxError)

SpecFair == Init /\ [][Next]_vars /\ Fairness

----------------------------------------------------------------------------
(* Properties of the validators (SpecPath) *)

\* P is R or lies below R at any depth
Under(P, R) ==
    /\ Len(P) >= Len(R)
    /\ SubSeq(P, 1, Len(R)) = R

\* P and R have the same parent directory and different names
Sibling(P, R) ==
    /\ Len(P) = Len(R)
    /\ Len(R) > 0
    /\ Parent(P) = Parent(R)
    /\ P # R

HardDenied == {Home \o r : r \in SeqToSet(HardcodedDeniedPaths)}
CredentialControlled == {Home \o r : r \in SeqToSet(CredentialControlledPaths)}

Validated == vOut # Pending

\* C1: every path equal to or nested at any depth under a hard-denied rule
\* is refused by ValidateMountPath and by ValidateMountPathStrict, whatever
\* the names of its components.
C1_HardDeniedRefused ==
    (Validated /\ \E R \in HardDenied : Under(vPath, R))
        => (vOut.lax # NoError /\ vOut.strict # NoError)

\* C5 as stated: every sibling of a hard-denied rule R passes
\* ValidateMountPath, and R itself is refused.
C5_EverySiblingPasses ==
    (Validated /\ vHomeOk)
        => /\ \A R \in HardDenied : Sibling(vPath, R) => vOut.lax = NoError
           /\ vPath \in HardDenied => vOut.lax # NoError

\* C5 amended: every sibling of a hard-denied rule R that is not itself a
\* hard-denied rule passes ValidateMountPath (names that extend R's name
\* included), and R itself is refused.
C5_SiblingPasses ==
    (Validated /\ vHomeOk)
        => /\ \A R \in HardDenied :
                (Sibling(vPath, R) /\ vPath \notin HardDenied)
                    => vOut.lax = NoError
           /\ vPath \in HardDenied => vOut.lax # NoError

\* ~/.netrc.bak has been validated and passed
C5_Witness ==
    /\ Validated
    /\ vHomeOk
    /\ vPath = Home \o <<".netrc.bak">>
    /\ Sibling(vPath, Home \o <<".netrc">>)
    /\ vOut.lax = NoError

----------------------------------------------------------------------------
(* Properties of the request runContainer hands to Runner.Run (SpecCli) *)

UnderAny(path, rules) == \E R \in rules : Under(path, R)

\* every host path the request asks the engine to bind: the sources of
\* opts.Mounts and the paths of opts.Security.CACerts
RequestSources ==
    {rcMounts[i].Source : i \in 1..Len(rcMounts)} \cup SeqToSet(rcCACerts)

\* C2: in every request handed to Run no bind-mount source, whatever its
\* origin, is equal to or nested under a hard-denied rule.
C2_NoHardDeniedSource ==
    rcPc = "run" => \A source \in RequestSources : ~UnderAny(source, HardDenied)

\* the paths given with --mount and --mount-ro that resolve to a
\* credential-controlled rule or below one
ControlledFlagPaths ==
    {raw \in SeqToSet(rcIn.mount) \cup SeqToSet(rcIn.mountRo) :
        LET expanded == ExpandPath(host, raw)
        IN  /\ expanded.err = "nil"
            /\ UnderAny(expanded.path, CredentialControlled)}

\* C3: once the --mount and --mount-ro flags have been processed, a flag
\* path that resolves to or below a credential-controlled rule has made
\* runContainer fail, so that Run is never invoked with it.
C3_ControlledFlagRejected ==
    (rcPc \in {"defaults", "env", "claude", "external", "cacerts", "runner", "run"}
        /\ host.homeOk)
        => ControlledFlagPaths = {}

\* the mounts of the request that the SSH collector emitted for configured
\* key paths
SSHKeyMountsOfRequest ==
    IF rcIn.noExtCreds \/ ~rcIn.creds.SSH.Enabled THEN {}
    ELSE SeqToSet(rcMounts) \cap SeqToSet(SSHKeyMounts(rcIn.creds.SSH.Keys, host))

\* the mount of the request that the GCloud collector emitted for the file
\* named by GOOGLE_APPLICATION_CREDENTIALS
GCloudCustomMountsOfRequest ==
    IF rcIn.noExtCreds \/ Getenv(host.env, "GOOGLE_APPLICATION_CREDENTIALS") = ""
    THEN {}
    ELSE {m \in SeqToSet(rcMounts) :
            /\ m.Target = AdcTarget
            /\ m.Source = ParsePath(Getenv(host.env,
                                           "GOOGLE_APPLICATION_CREDENTIALS"))}

\* C4: a mount the SSH collector emits for a key path is never sourced
\* under ~/.aws, ~/.config/gh or ~/.config/gcloud, and the mount the GCloud
\* collector emits for GOOGLE_APPLICATION_CREDENTIALS never under ~/.ssh,
\* ~/.aws or ~/.config/gh.
C4_CollectorKeepsToOwnRule ==
    rcPc = "run" =>
        /\ \A m \in SSHKeyMountsOfRequest :
            ~UnderAny(m.Source, {Home \o <<".aws">>, Home \o <<".config", "gh">>,
                                 Home \o <<".config", "gcloud">>})
        /\ \A m \in GCloudCustomMountsOfRequest :
            ~UnderAny(m.Source, {Home \o <<".ssh">>, Home \o <<".aws">>,
                                 Home \o <<".config", "gh">>})

\* runContainer has handed its request to Runner.Run
RequestPassed == rcPc = "run"

\* P is a directory above R
ProperAncestor(P, R) == Len(P) < Len(R) /\ SubSeq(R, 1, Len(P)) = P

\* C26: in every request handed to Run no bind-mount source is a directory
\* above a hard-denied path, such as the home directory or "/", so that
\* no hard-denied file or directory can be reached through a mount.
C26_NoAncestorOfHardDenied ==
    RequestPassed =>
        \A source \in RequestSources, R \in HardDenied :
            ~ProperAncestor(source, R)

\* the targets of the mount list Run sends to the engine for the request
RequestTargets(readOnlyRoot) ==
    EngineMountTargets(rcMounts, readOnlyRoot, rcCACerts)

\* C28: in the mount list Run sends to the engine no two mounts have the
\* same target in the sandbox, whatever the working directory, the user
\* and default mounts, the session mount, the credential mounts, the tmpfs
\* mounts and the CA-certificate mounts are.
C28_TargetsDistinct ==
    RequestPassed =>
        \A readOnlyRoot \in BOOLEAN :
            LET targets == RequestTargets(readOnlyRoot)
            IN  \A i, j \in 1..Len(targets) :
                    targets[i] = targets[j] => i = j

\* what each source sets, in the order runContainer applies them: the
\* passthrough list against the host's environment, the custom entries,
\* Claude's authentication, the external credentials
FromPassthrough ==
    [k \in {rcIn.passthrough[i] : i \in DOMAIN rcIn.passthrough}
           \cap DOMAIN host.env |-> host.env[k]]
FromCustom == rcIn.custom
FromClaudeAuth == CollectClaudeAuth(rcIn.claude, host).env
FromExternal == ExternalContribution(rcIn.noExtCreds, rcIn.creds, host).env
FromClaudeAuthMounts == CollectClaudeAuth(rcIn.claude, host).mounts
FromExternalMounts ==
    ExternalContribution(rcIn.noExtCreds, rcIn.creds, host).mounts

\* C19: in the environment of the request passed to Run every key has the
\* value of the latest source that sets it, in the order passthrough list,
\* custom entries, Claude's authentication, external credentials; the keys
\* are those some source sets, so a passthrough key that the host does not
\* have is not added.
C19_LatestSourceWins ==
    RequestPassed =>
        /\ DOMAIN rcEnv = DOMAIN FromPassthrough \cup DOMAIN FromCustom
                          \cup DOMAIN FromClaudeAuth \cup DOMAIN FromExternal
        /\ \A k \in DOMAIN rcEnv :
              rcEnv[k] = IF k \in DOMAIN FromExternal THEN FromExternal[k]
                         ELSE IF k \in DOMAIN FromClaudeAuth
                              THEN FromClaudeAuth[k]
                         ELSE IF k \in DOMAIN FromCustom THEN FromCustom[k]
                         ELSE FromPassthrough[k]
        /\ \A i \in DOMAIN rcIn.passthrough :
              LET k == rcIn.passthrough[i]
              IN  (k \notin DOMAIN host.env \cup DOMAIN FromCustom
                         \cup DOMAIN FromClaudeAuth \cup DOMAIN FromExternal)
                    => k \notin DOMAIN rcEnv

\* the host's key passed through, the custom entry and Claude's
\* authentication all set ANTHROPIC_API_KEY, the custom entry with another
\* value; the custom GOOGLE_APPLICATION_CREDENTIALS gives way to the
\* external one; EDITOR, which the host does not have, is not added
C19_Witness ==
    /\ RequestPassed
    /\ "ANTHROPIC_API_KEY" \in DOMAIN FromPassthrough
    /\ FromCustom["ANTHROPIC_API_KEY"] = "c2"
    /\ rcEnv["ANTHROPIC_API_KEY"] = "sk-k"
    /\ rcEnv["GOOGLE_APPLICATION_CREDENTIALS"] # "c3"
    /\ "GOOGLE_APPLICATION_CREDENTIALS" \in DOMAIN FromExternal
    /\ "EDITOR" \notin DOMAIN rcEnv

\* ExpandPath fails on a path as the user wrote it; the validator refuses
\* the path it resolves to
ResolutionFails(raw) == ExpandPath(host, raw).err # "nil"
Refused(raw) ==
    /\ ~ResolutionFails(raw)
    /\ ValidateMountPath(ExpandPath(host, raw).path, host.homeOk) # NoError
Usable(raw) == ~ResolutionFails(raw) /\ ~Refused(raw)
AnyOf(list, Test(_)) == \E i \in DOMAIN list : Test(list[i])
\* the directory runContainer works in: the flag, or os.Getwd()
WorkDirOf(flag) == IF flag = EmptyPath THEN Raw("abs", host.cwd) ELSE flag
\* runContainer has returned an error: NewRunner was not called or failed,
\* and Run was not called
ReturnedError == rcPc = "failed" /\ RunIdle
\* the errors of the paths of the command line
PathErrors ==
    {"invalid working directory", "invalid mount path", "mount path denied"}
\* the mounts of the request that come from cfg.Mounts.Defaults: they
\* follow the working directory and the flags
DefaultPartOf(mounts) ==
    LET before == 1 + Len(rcIn.mount) + Len(rcIn.mountRo)
        count == Len(SelectSeq(rcIn.defaults, LAMBDA e : Usable(e.Path)))
    IN  SubSeq(mounts, before + 1, before + count)

\* C20: a working directory that does not resolve, and a --mount or
\* --mount-ro path that does not resolve or that the validator refuses,
\* make runContainer return an error, with no runner and no call of Run;
\* an entry of the default mounts or of the CA certificates that fails in
\* the same way is never the cause of an error, and the request passed to
\* Run has the other default mounts and CA paths, in order, as if the
\* entry had not been configured.
C20_FatalOnlyForWorkdirAndFlags ==
    /\ (rcPc \notin {"idle", "workdir"}
          /\ ResolutionFails(WorkDirOf(rcIn.workdir)))
          => ReturnedError /\ rcErr = "invalid working directory"
    /\ (AnyOf(rcIn.mount, ResolutionFails) \/ AnyOf(rcIn.mount, Refused)
          \/ AnyOf(rcIn.mountRo, ResolutionFails)
          \/ AnyOf(rcIn.mountRo, Refused))
          => ReturnedError /\ rcErr \in PathErrors \ {"invalid working directory"}
    /\ (rcPc = "failed" /\ rcErr \in PathErrors)
          => \/ ResolutionFails(WorkDirOf(rcIn.workdir))
             \/ AnyOf(rcIn.mount, ResolutionFails)
             \/ AnyOf(rcIn.mount, Refused)
             \/ AnyOf(rcIn.mountRo, ResolutionFails)
             \/ AnyOf(rcIn.mountRo, Refused)
    /\ (rcPc = "failed" /\ rcErr \notin PathErrors)
          => \/ /\ rcErr = "failed to collect credentials"
                /\ ExternalContribution(rcIn.noExtCreds, rcIn.creds,
                                        host).err # "nil"
             \/ /\ rcErr = "failed to create container runner"
                /\ ~rcIn.engineUp
    /\ RequestPassed =>
          LET defaults == SelectSeq(rcIn.defaults, LAMBDA e : Usable(e.Path))
              caCerts == SelectSeq(rcIn.caCerts, Usable)
          IN  /\ DefaultPartOf(rcMounts) =
                    [i \in 1..Len(defaults) |->
                        LET path == ExpandPath(host, defaults[i].Path).path
                        IN  Mount(path, path, defaults[i].ReadOnly)]
              /\ Len(rcMounts) =
                    1 + Len(rcIn.mount) + Len(rcIn.mountRo) + Len(defaults)
                    + Len(FromClaudeAuthMounts) + Len(FromExternalMounts)
              /\ rcCACerts = CACertPaths(host, caCerts)
              /\ \A i \in DOMAIN rcIn.caCerts :
                    ~Usable(rcIn.caCerts[i])
                       => \A j \in DOMAIN rcCACerts :
                             rcCACerts[j] # ExpandPath(host, rcIn.caCerts[i]).path

\* the request is passed to Run with one of four default mounts, the
\* others having failed to resolve or been refused, and with the CA paths
\* that were not refused
C20_Witness ==
    /\ RequestPassed
    /\ host.homeOk
    /\ Len(rcIn.defaults) = 4
    /\ AnyOf(rcIn.defaults, LAMBDA e : ResolutionFails(e.Path))
    /\ AnyOf(rcIn.defaults, LAMBDA e : Refused(e.Path))
    /\ DefaultPartOf(rcMounts) =
          <<Mount(Home \o <<".ssh", "id_a">>, Home \o <<".ssh", "id_a">>, FALSE)>>
    /\ AnyOf(rcIn.caCerts, Refused)
    /\ Len(rcCACerts) > 0

----------------------------------------------------------------------------
(* Properties of the session (Spec, SpecFair) *)

Removes == {i \in 1..Len(calls) : calls[i].op = "remove"}
Stops == {i \in 1..Len(calls) : calls[i].op = "stop"}
Returned == pc \in {"returned", "exit"}
CreateSucceeded == ctr # "none"

\* cancel() was first called while the container was running and Run was
\* between ContainerStart and the end of its select, with no status and no
\* error of the wait reported yet
CancelledWhileRunning ==
    /\ cancelAt.fired
    /\ cancelAt.ctr = "running"
    /\ cancelAt.pc \in {"resize", "raw", "wait", "select", "blocked"}
    /\ cancelAt.wait \in {"none", "pending"}

\* C6: when ContainerCreate succeeded, Run has issued a forced
\* ContainerRemove exactly once by the time it returns, whatever the path
\* (attach, start or raw-terminal failure, wait error, zero or nonzero
\* exit, cancellation), and on the background context; no remove is issued
\* before Run starts to return, never a second one, and none at all when
\* ContainerCreate failed.
C6_RemovedExactlyOnce ==
    /\ Cardinality(Removes) <= 1
    /\ \A i \in Removes : calls[i].force /\ calls[i].ctx = "background"
    /\ Removes # {} => pc \in {"unwind", "returned", "exit"}
    /\ Returned => (Cardinality(Removes) = 1 <=> CreateSucceeded)

\* a cancelled session of a started container is back in runContainer
C6_Witness ==
    /\ pc = "returned"
    /\ CancelledWhileRunning
    /\ result = Result("context canceled", 0)
    /\ Cardinality(Removes) = 1
    /\ ctr = "removed"

\* C7: when cancel() fires while the container is running and no exit
\* status has been delivered, Run returns ctx.Err(), whichever case of the
\* select is taken: neither nil nor a generic failure.
C7_CancelledRunReturnsCtxErr ==
    (/\ pc = "returned"
     /\ CancelledWhileRunning
     /\ recv.case \in {"caseErr", "caseDone"})
        => result = Result("context canceled", 0)

\* C8: a session cancelled while the container was running has issued
\* exactly one ContainerStop, however many callers of cancel() there were;
\* a session ended by the container's exit or by a wait error has issued
\* none; a stop carries the 5 s timeout, is issued on the background
\* context and precedes the forced remove.
C8_StopExactlyOnceWhenCancelled ==
    /\ \A i \in Stops :
          /\ calls[i].timeout = StopTimeout
          /\ calls[i].ctx = "background"
          /\ \A j \in Removes : i < j
    /\ pc = "returned" =>
          /\ (CancelledWhileRunning /\ recv.case \in {"caseErr", "caseDone"})
                => Cardinality(Stops) = 1
          /\ recv.case = "caseStatus" => Stops = {}
          /\ (recv.case = "caseErr" /\ ~cancelAt.fired) => Stops = {}

\* C9: once cancel() has fired while the container was running, Run
\* eventually returns (and so its deferred cleanup has run): the control
\* task does not wait forever for the message on outputDone.
C9_CancelledRunReturns == CancelledWhileRunning ~> Returned

\* C10: when the status of the wait decides the outcome, Run returns nil
\* exactly when the code is 0 and otherwise a failure carrying the code;
\* when the wait reported an error while ctx was not done, Run returns the
\* failure that wraps it.
C10_WaitDecidesOutcome ==
    pc = "returned" =>
        /\ recv.case = "caseStatus" =>
              /\ result = Result("nil", 0) <=> recv.status = 0
              /\ recv.status # 0 =>
                    result = Result("container exited with code", recv.status)
        /\ (recv.case = "caseErr" /\ recv.err = "engine error") =>
              result = Result("error waiting for container", 0)

\* ContainerStart succeeded in this session
Started ==
    \/ ctr \in {"running", "exited"}
    \/ /\ ctr = "removed"
       /\ result.kind \notin {"failed to attach to container",
                              "failed to start container"}

\* Run has taken its message from outputDone
OutputReceived ==
    /\ recv.case \in {"caseErr", "caseStatus"}
    /\ pc \in {"unwind", "returned", "exit"}

\* completion messages sent so far: those in the channel and the one taken
Sends == outputDone + (IF OutputReceived THEN 1 ELSE 0)

\* C11: when the status or an error of the wait decides the result, Run
\* has its result only after the output relay has sent its completion
\* message; a started session has exactly one output relay, the reader of
\* the attach stream in TTY mode and the follower of the logs otherwise;
\* the relay sends on outputDone once, when it ends, and never again.
C11_OutputDrainedBeforeOutcome ==
    /\ (result # NoResult /\ recv.case \in {"caseErr", "caseStatus"})
          => outPc = "done" /\ Sends = 1
    /\ Started => IF isTTY THEN outPc \in {"reading", "done"}
                  ELSE outPc \in {"logs", "copying", "done"}
    /\ Sends = (IF outPc = "done" THEN 1 ELSE 0)
    /\ outputDone \in {0, 1}

\* a nonzero exit reported after the followed logs have ended
C11_Witness ==
    /\ pc = "returned"
    /\ ~isTTY
    /\ recv.case = "caseStatus"
    /\ result = Result("container exited with code", 1)
    /\ outPc = "done"

----------------------------------------------------------------------------
(* Properties of the collectors (SpecCred) *)

Collected == crOut # NotCollected
HostSet(key) == Getenv(host.env, key) # ""
MountsTo(r, targets) == SelectSeq(r.mounts, LAMBDA m : m.Target \in targets)
SSHTargets ==
    {AgentSockTarget} \cup {SshTargetDir \o <<n>> : n \in {"id_a", "id_b", "known_hosts", "u", ".ssh"}}

\* what a result holds for one service: its mounts and its variable
GitHubPart(r) ==
    [mounts |-> MountsTo(r, {GhHostsTarget}),
     env |-> [k \in DOMAIN r.env \cap {"GH_TOKEN"} |-> r.env[k]]]
GCloudPart(r) ==
    [mounts |-> MountsTo(r, {AdcTarget}),
     env |-> [k \in DOMAIN r.env \cap {"GOOGLE_APPLICATION_CREDENTIALS"} |->
                r.env[k]]]
SSHPart(r) ==
    [mounts |-> MountsTo(r, SSHTargets),
     env |-> [k \in DOMAIN r.env \cap {"SSH_AUTH_SOCK"} |-> r.env[k]]]
Nothing == [mounts |-> <<>>, env |-> EmptyEnv]

\* C12: a service whose policy is "disabled" (for SSH: whose gate is
\* false) has no mount and no variable in what CollectExternalCredentials
\* returns, whatever the token variables and the files of the host; and
\* with --no-external-credentials runContainer takes nothing at all from
\* the external services.
C12_DisabledContributesNothing ==
    Collected =>
        /\ crCfg.Credentials.GitHub = CredentialDisabled
              => GitHubPart(crOut.ext) = Nothing
        /\ crCfg.Credentials.GCloud = CredentialDisabled
              => GCloudPart(crOut.ext) = Nothing
        /\ ~crCfg.Credentials.SSH.Enabled => SSHPart(crOut.ext) = Nothing
        /\ Len(crOut.ext.mounts) =
              Len(GitHubPart(crOut.ext).mounts) + Len(GCloudPart(crOut.ext).mounts)
              + Len(SSHPart(crOut.ext).mounts)
        /\ crOut.noExtCreds =>
              crOut.added = [mounts |-> <<>>, env |-> EmptyEnv, err |-> "nil"]

\* GitHub is disabled on a host that has both a token and hosts.yml, while
\* GCloud and SSH contribute
C12_Witness ==
    /\ Collected
    /\ crCfg.Credentials.GitHub = CredentialDisabled
    /\ HostSet("GH_TOKEN")
    /\ FileExists(host.fs, GhHostsFile)
    /\ GCloudPart(crOut.ext) # Nothing
    /\ SSHPart(crOut.ext) # Nothing

\* no token variable is set and hosts.yml is not there
NoGitHubSignal ==
    /\ ~HostSet("GH_TOKEN")
    /\ ~HostSet("GITHUB_TOKEN")
    /\ ~FileExists(host.fs, GhHostsFile)
NoGCloudSignal ==
    /\ ~HostSet("GOOGLE_APPLICATION_CREDENTIALS")
    /\ ~FileExists(host.fs, AdcFile)
Settings == PolicyChoices \cup {"on"}
TokenVars == {{"GH_TOKEN", "GITHUB_TOKEN"}, {"GOOGLE_APPLICATION_CREDENTIALS"}}

ShouldEnableOnlyOffWhenDisabled ==
    \A setting \in Settings, envVars \in TokenVars :
        shouldEnable(setting, host.env, envVars) = (setting # CredentialDisabled)

\* C13 as stated: with the policy "auto" and no presence signal the service
\* contributes no mount and no variable and CollectExternalCredentials
\* returns a nil error; shouldEnable is false only for "disabled",
\* whatever the environment.
C13_AutoWithoutSignalNoError ==
    Collected =>
        /\ ShouldEnableOnlyOffWhenDisabled
        /\ (crCfg.Credentials.GitHub = CredentialAuto /\ NoGitHubSignal)
              => GitHubPart(crOut.ext) = Nothing /\ crOut.ext.err = "nil"
        /\ (crCfg.Credentials.GCloud = CredentialAuto /\ NoGCloudSignal)
              => GCloudPart(crOut.ext) = Nothing /\ crOut.ext.err = "nil"

\* C13 as amended: the same, with the nil error only when os.UserHomeDir()
\* succeeds; when it fails CollectExternalCredentials returns that error
\* and nothing else, for every policy.
C13_AutoWithoutSignal ==
    Collected =>
        /\ ShouldEnableOnlyOffWhenDisabled
        /\ (crCfg.Credentials.GitHub = CredentialAuto /\ NoGitHubSignal)
              => GitHubPart(crOut.ext) = Nothing
        /\ (crCfg.Credentials.GCloud = CredentialAuto /\ NoGCloudSignal)
              => GCloudPart(crOut.ext) = Nothing
        /\ crOut.ext.err = (IF host.homeOk THEN "nil" ELSE "home")
        /\ ~host.homeOk => crOut.ext.mounts = <<>> /\ crOut.ext.env = EmptyEnv

\* both services on "auto" on a host with a home directory and no signal
C13_Witness ==
    /\ Collected
    /\ host.homeOk
    /\ crCfg.Credentials.GitHub = CredentialAuto
    /\ crCfg.Credentials.GCloud = CredentialAuto
    /\ NoGitHubSignal
    /\ NoGCloudSignal
    /\ crOut.ext = [mounts |-> <<>>, env |-> EmptyEnv, err |-> "nil"]

\* the auth mode lets CollectClaudeAuth mount the session directory
SessionAllowed == crCfg.Claude.Auth \in {"", AuthAuto, AuthSession}
\* ~ is known and ~/.claude is a directory
ClaudeDirExists == host.homeOk /\ DirExists(host.fs, ClaudeDir)

\* C14: CollectClaudeAuth returns no mount or one.  When the auth mode
\* allows the session directory and ~/.claude is a directory, SessionDir
\* unset or "readonly" gives exactly the read-only mount of ~/.claude at
\* /tmp/.claude, "readwrite" exactly the writable one, "none" no mount;
\* when ~/.claude is not a directory there is no mount.
C14_SessionDirMount ==
    Collected =>
        LET m == crOut.claude.mounts
            dir == crCfg.Claude.SessionDir
        IN  /\ Len(m) <= 1
            /\ (SessionAllowed /\ ClaudeDirExists /\ dir \in {"", SessionReadOnly})
                  => m = <<Mount(ClaudeDir, ClaudeTarget, TRUE)>>
            /\ (SessionAllowed /\ ClaudeDirExists /\ dir = SessionReadWrite)
                  => m = <<Mount(ClaudeDir, ClaudeTarget, FALSE)>>
            /\ dir = SessionNone => m = <<>>
            /\ ~ClaudeDirExists => m = <<>>

\* the session directory is there and the setting is unset
C14_Witness ==
    /\ Collected
    /\ SessionAllowed
    /\ ClaudeDirExists
    /\ crCfg.Claude.SessionDir = ""
    /\ crOut.claude.mounts = <<Mount(ClaudeDir, ClaudeTarget, TRUE)>>

\* C15: ANTHROPIC_API_KEY is in the environment CollectClaudeAuth returns
\* exactly when the auth mode is "auto" (or unset) or "api-key" and the
\* host variable is not empty, and then with the host's value; under
\* "session" it is never there, and under "api-key" there is no mount of
\* the session directory.
C15_APIKeyPassedVerbatim ==
    Collected =>
        LET env == crOut.claude.env
            auth == crCfg.Claude.Auth
        IN  /\ "ANTHROPIC_API_KEY" \in DOMAIN env
                  <=> /\ auth \in {"", AuthAuto, AuthAPIKey}
                      /\ HostSet("ANTHROPIC_API_KEY")
            /\ "ANTHROPIC_API_KEY" \in DOMAIN env
                  => env["ANTHROPIC_API_KEY"] = Getenv(host.env, "ANTHROPIC_API_KEY")
            /\ DOMAIN env \subseteq {"ANTHROPIC_API_KEY"}
            /\ auth = AuthSession => env = EmptyEnv
            /\ auth = AuthAPIKey => crOut.claude.mounts = <<>>

\* CollectExternalCredentials gets to the block of the service
GitHubAttempted == host.homeOk /\ crCfg.Credentials.GitHub # CredentialDisabled
GCloudAttempted == host.homeOk /\ crCfg.Credentials.GCloud # CredentialDisabled

\* C16: when GitHub is attempted its contribution is the variable GH_TOKEN
\* with the host's GH_TOKEN if that is not empty, else with the host's
\* GITHUB_TOKEN if that is not empty, else the read-only mount of
\* ~/.config/gh/hosts.yml if the file exists, else nothing: never a token
\* together with the mount.
C16_GitHubOneKind ==
    (Collected /\ GitHubAttempted) =>
        LET part == GitHubPart(crOut.ext)
        IN  /\ part.mounts = <<>> \/ part.env = EmptyEnv
            /\ part.env =
                  (IF HostSet("GH_TOKEN")
                   THEN SetEnv(EmptyEnv, "GH_TOKEN", Getenv(host.env, "GH_TOKEN"))
                   ELSE IF HostSet("GITHUB_TOKEN")
                   THEN SetEnv(EmptyEnv, "GH_TOKEN",
                               Getenv(host.env, "GITHUB_TOKEN"))
                   ELSE EmptyEnv)
            /\ part.mounts =
                  (IF /\ ~HostSet("GH_TOKEN")
                      /\ ~HostSet("GITHUB_TOKEN")
                      /\ FileExists(host.fs, GhHostsFile)
                   THEN <<Mount(GhHostsFile, GhHostsTarget, TRUE)>>
                   ELSE <<>>)

\* only GITHUB_TOKEN is set and hosts.yml exists: the token alone is passed
C16_Witness ==
    /\ Collected
    /\ GitHubAttempted
    /\ ~HostSet("GH_TOKEN")
    /\ HostSet("GITHUB_TOKEN")
    /\ FileExists(host.fs, GhHostsFile)
    /\ GitHubPart(crOut.ext) =
          [mounts |-> <<>>, env |-> SetEnv(EmptyEnv, "GH_TOKEN", "t2")]

\* C17: when GCloud is attempted the default ADC file is mounted read-only
\* exactly when it exists, the file that the host's
\* GOOGLE_APPLICATION_CREDENTIALS names is mounted read-only exactly when
\* the variable is not empty and names an existing file, both at the same
\* target and possibly both; the variable is contributed exactly when
\* there is such a mount, and its value is the path in the container,
\* never the host's.
C17_GCloudMounts ==
    (Collected /\ GCloudAttempted) =>
        LET part == GCloudPart(crOut.ext)
            customPath == Getenv(host.env, "GOOGLE_APPLICATION_CREDENTIALS")
            adc == FileExists(host.fs, AdcFile)
            custom == customPath # "" /\ FileExists(host.fs, ParsePath(customPath))
        IN  /\ part.mounts =
                  (IF adc THEN <<Mount(AdcFile, AdcTarget, TRUE)>> ELSE <<>>)
                  \o (IF custom
                      THEN <<Mount(ParsePath(customPath), AdcTarget, TRUE)>>
                      ELSE <<>>)
            /\ part.env =
                  (IF part.mounts # <<>>
                   THEN SetEnv(EmptyEnv, "GOOGLE_APPLICATION_CREDENTIALS",
                               AbsString(AdcTarget))
                   ELSE EmptyEnv)
            /\ \A k \in DOMAIN part.env : part.env[k] # customPath

\* the variable names an existing file and there is no default ADC file
C17_Witness ==
    /\ Collected
    /\ GCloudAttempted
    /\ ~FileExists(host.fs, AdcFile)
    /\ FileExists(host.fs, SaFile)
    /\ HostSet("GOOGLE_APPLICATION_CREDENTIALS")
    /\ GCloudPart(crOut.ext).mounts = <<Mount(SaFile, AdcTarget, TRUE)>>

\* CollectExternalCredentials gets to collectSSHCredentials
SSHGateOpen == host.homeOk /\ crCfg.Credentials.SSH.Enabled
KnownHostsTarget == SshTargetDir \o <<"known_hosts">>
\* the mounts of a result for the configured keys, for known_hosts and for
\* the agent's socket
KeyMountsOf(r) ==
    MountsTo(r, SSHTargets \ {KnownHostsTarget, AgentSockTarget})
KnownHostsMountsOf(r) == MountsTo(r, {KnownHostsTarget})
AgentMountsOf(r) == MountsTo(r, {AgentSockTarget})
\* the entries of Keys that resolve to an existing non-directory
UsableKeys(keys) ==
    { i \in DOMAIN keys :
        LET expanded == ExpandPath(host, keys[i])
        IN  expanded.err = "nil" /\ FileExists(host.fs, expanded.path) }
\* other lists of keys to compare a result with: none, a usable one, a
\* directory with a link
OtherKeys ==
    { <<>>, <<T(<<".ssh", "id_a">>)>>, <<T(<<".ssh">>), T(<<"klink">>)>> }
\* cfg.Credentials.SSH with the two toggles and the keys replaced
SSHWith(keys, kh, af) ==
    [Enabled |-> TRUE, Keys |-> keys, KnownHosts |-> kh, AgentForwarding |-> af]

\* C18: with the SSH gate open there is one read-only mount for each entry
\* of Keys that resolves and exists as a file, at /root/.ssh/<basename of
\* the resolved path>, and none whose source is a directory or ~/.ssh;
\* known_hosts is mounted read-only exactly when KnownHosts is set and the
\* file exists; the agent's socket is mounted writable and SSH_AUTH_SOCK
\* rewritten exactly when AgentForwarding is set and the host's
\* SSH_AUTH_SOCK is not empty; and what each of the three contributes is
\* the same for every value of the other two settings.
C18_SSHSubFeatures ==
    (Collected /\ SSHGateOpen) =>
        LET ssh == crCfg.Credentials.SSH
            r == crOut.ext
            keyMounts == KeyMountsOf(r)
            forward == ssh.AgentForwarding /\ HostSet("SSH_AUTH_SOCK")
        IN  /\ Len(keyMounts) = Cardinality(UsableKeys(ssh.Keys))
            /\ \A j \in DOMAIN keyMounts :
                  LET m == keyMounts[j]
                  IN  /\ m.ReadOnly
                      /\ m.Target = SshTargetDir \o <<Last(m.Source)>>
                      /\ TypeOf(host.fs, m.Source) = "file"
                      /\ m.Source # Home \o <<".ssh">>
                      /\ \E i \in UsableKeys(ssh.Keys) :
                            ExpandPath(host, ssh.Keys[i]).path = m.Source
            /\ KnownHostsMountsOf(r) =
                  (IF ssh.KnownHosts /\ FileExists(host.fs, KnownHostsFile)
                   THEN <<Mount(KnownHostsFile, KnownHostsTarget, TRUE)>>
                   ELSE <<>>)
            /\ AgentMountsOf(r) =
                  (IF forward
                   THEN <<Mount(ParsePath(Getenv(host.env, "SSH_AUTH_SOCK")),
                                AgentSockTarget, FALSE)>>
                   ELSE <<>>)
            /\ SSHPart(r).env =
                  (IF forward
                   THEN SetEnv(EmptyEnv, "SSH_AUTH_SOCK",
                               AbsString(AgentSockTarget))
                   ELSE EmptyEnv)
            /\ SSHPart(r).mounts =
                  keyMounts \o KnownHostsMountsOf(r) \o AgentMountsOf(r)
            /\ \A kh \in BOOLEAN, af \in BOOLEAN :
                  KeyMountsOf(collectSSHCredentials(SSHWith(ssh.Keys, kh, af),
                                                    host)) = keyMounts
            /\ \A keys \in OtherKeys, af \in BOOLEAN :
                  KnownHostsMountsOf(
                      collectSSHCredentials(SSHWith(keys, ssh.KnownHosts, af),
                                            host)) = KnownHostsMountsOf(r)
            /\ \A keys \in OtherKeys, kh \in BOOLEAN :
                  LET other == collectSSHCredentials(
                                   SSHWith(keys, kh, ssh.AgentForwarding), host)
                  IN  /\ AgentMountsOf(other) = AgentMountsOf(r)
                      /\ other.env = SSHPart(r).env
            /\ (/\ ssh.Keys = <<T(<<".ssh", "id_a">>)>>
                /\ ~ssh.KnownHosts
                /\ ~ssh.AgentForwarding
                /\ FileExists(host.fs, KeyFile))
                  => SSHPart(r).mounts =
                        <<Mount(KeyFile, SshTargetDir \o <<"id_a">>, TRUE)>>

\* the keys are ~/.ssh and a link to ~/.ssh/id_a, known_hosts is mounted
\* and the agent forwarded: the directory is left out and the key is
\* mounted from the path the link resolves to
C18_Witness ==
    /\ Collected
    /\ SSHGateOpen
    /\ crCfg.Credentials.SSH.Keys = <<T(<<".ssh">>), T(<<"klink">>)>>
    /\ KeyMountsOf(crOut.ext) =
          <<Mount(KeyFile, SshTargetDir \o <<"id_a">>, TRUE)>>
    /\ Len(KnownHostsMountsOf(crOut.ext)) = 1
    /\ Len(AgentMountsOf(crOut.ext)) = 1

----------------------------------------------------------------------------
(* Properties of ExpandPath (SpecExpand) *)

Expanded == xOut # NotExpanded
\* the path after tilde expansion, Clean and absolutization, before the
\* links are resolved
CleanedOf(h, raw) ==
    Clean((IF raw.kind = "tilde" THEN Home
           ELSE IF raw.kind = "rel" THEN h.cwd
           ELSE <<>>) \o raw.comps)
HomeUnknown == xRaw.kind = "tilde" /\ ~host.homeOk
CwdUnknown == xRaw.kind = "rel" /\ ~host.cwdOk
\* what resolving the links of the cleaned path reports
ResolutionOf == EvalSymlinks(host.fs, CleanedOf(host, xRaw)).err
NotFound ==
    /\ xRaw # EmptyPath
    /\ ~HomeUnknown
    /\ ~CwdUnknown
    /\ ResolutionOf = "notexist"

\* C21 as stated: a path that does not exist comes back cleaned, absolute
\* and unresolved with no error, and ExpandPath fails only when the home
\* directory cannot be determined or when resolving the links fails with
\* an error other than "not found".
C21_ErrorsOnlyFromHomeOrResolution ==
    Expanded =>
        /\ NotFound => xOut.expanded = [err |-> "nil",
                                        path |-> CleanedOf(host, xRaw)]
        /\ xOut.expanded.err # "nil"
              => \/ HomeUnknown
                 \/ (xRaw # EmptyPath /\ ~CwdUnknown
                       /\ ResolutionOf \notin {"nil", "notexist"})

\* C21, amended: a path that does not exist comes back cleaned, absolute
\* and unresolved with no error, and ExpandPath fails exactly when the
\* path is empty, the home directory of a "~" path or the current
\* directory of a relative path cannot be determined, or resolving the
\* links fails with an error other than "not found".
C21_ErrorCauses ==
    Expanded =>
        /\ NotFound => xOut.expanded = [err |-> "nil",
                                        path |-> CleanedOf(host, xRaw)]
        /\ xOut.expanded.err # "nil"
              <=> \/ xRaw = EmptyPath
                  \/ HomeUnknown
                  \/ CwdUnknown
                  \/ ResolutionOf \notin {"nil", "notexist"}

\* ~/lnk/new, below a link, does not exist: it comes back as written under
\* the home directory
C21_Witness ==
    /\ Expanded
    /\ NotFound
    /\ xRaw = T(<<"lnk", "new">>)
    /\ host.fs = FsLinks
    /\ xOut.expanded = [err |-> "nil", path |-> Home \o <<"lnk", "new">>]

\* where a path really is: its links resolved as far as the path exists,
\* the rest appended
RECURSIVE RealFrom(_, _, _, _)
RealFrom(fs, cur, rest, fuel) ==
    IF Len(rest) = 0 THEN cur
    ELSE LET next == cur \o <<rest[1]>>
             type == TypeOf(fs, next)
         IN  IF type = "dir" THEN RealFrom(fs, next, Tail(rest), fuel)
             ELSE IF type = "link" /\ fuel > 0
                  THEN RealFrom(fs, <<>>, fs.links[next] \o Tail(rest), fuel - 1)
             ELSE cur \o rest
RealLocation(fs, path) == RealFrom(fs, <<>>, path, MaxLinks)
\* the path really is at or below the real location of a hard-denied rule
ReallyHardDenied ==
    /\ xRaw # EmptyPath
    /\ \E R \in HardDenied :
          Under(RealLocation(host.fs, CleanedOf(host, xRaw)),
                RealLocation(host.fs, R))
Rejected == xOut.expanded.err # "nil" \/ xOut.lax # NoError

\* C27: ExpandPath followed by ValidateMountPath rejects every path whose
\* real location, with its links resolved, is a hard-denied rule's real
\* location or below it: when the path reaches the rule through a link,
\* when its last components do not exist yet below a link into a denied
\* directory, and when a component of the home directory is a link.
C27_ResolvedHardDeniedRejected ==
    (Expanded /\ ReallyHardDenied) => Rejected

----------------------------------------------------------------------------
(* Properties of the loaded configuration (SpecConfig) *)

\* C22: when the config file sets the deprecated mounts.claude_dir and
\* nothing sets claude.session_dir, the session-directory mode of the
\* configuration LoadConfig returns is the value of mounts.claude_dir.
C22_ClaudeDirMigrated ==
    (/\ cfgLoaded
     /\ cfgIn.fileClaudeDir \notin {Unset, <<"">>}
     /\ cfgIn.fileSessionDir = Unset
     /\ cfgIn.flagSessionDir = Unset)
        => crCfg.Claude.SessionDir = cfgIn.fileClaudeDir[1]

\* C29: CollectClaudeAuth mounts the session directory writable only when
\* the session-directory mode is exactly "readwrite"; for every other
\* value a config file or --claude-session-dir can give, there is no mount
\* or a read-only one.
C29_WritableOnlyWhenReadWrite ==
    (cfgLoaded /\ Collected)
        => \A i \in DOMAIN crOut.claude.mounts :
              ~crOut.claude.mounts[i].ReadOnly
                 => crCfg.Claude.SessionDir = SessionReadWrite

----------------------------------------------------------------------------
(* Properties of the order of the engine calls (Spec) *)

\* this step issues the engine call `op`
Issued(op) ==
    /\ Len(calls') = Len(calls) + 1
    /\ calls'[Len(calls')].op = op
Called(op) == \E i \in DOMAIN calls : calls[i].op = op
OpsOf(seq) == [i \in DOMAIN seq |-> seq[i].op]
\* ContainerStart has been called and has not failed
StartSucceeded == Called("start") /\ result.kind # "failed to start container"
FailedBeforeRunning ==
    result.kind \in {"failed to attach to container", "failed to start container"}

\* C23: the engine calls of a session come in the order create, attach,
\* start, wait: attach is issued only on a container that create returned,
\* start only over an open attach connection, and wait, the following of
\* the logs, a resize and the switch to raw mode only after a start that
\* succeeded; and when attach or start fails Run returns that failure
\* with the forced remove as its last call and no wait and no stop.
C23_CallOrder ==
    /\ [][ /\ Issued("create") => calls = <<>>
           /\ Issued("attach")
                 => Called("create") /\ ctr = "created" /\ ~Called("attach")
           /\ Issued("start")
                 => Called("attach") /\ attachOpen /\ ctr = "created"
                    /\ ~Called("start")
           /\ Issued("wait")
                 => StartSucceeded /\ ctr \in {"running", "exited"}
                    /\ ~Called("wait")
           /\ (Issued("logs") \/ Issued("resize")) => StartSucceeded
           /\ (rawMode' /\ ~rawMode)
                 => StartSucceeded /\ ctr \in {"running", "exited"} ]_vars
    /\ [](pc \in {"resize", "raw"} => StartSucceeded)
    /\ []((Returned /\ FailedBeforeRunning)
            => /\ OpsOf(calls) \in { <<"create", "attach", "remove">>,
                                     <<"create", "attach", "start", "remove">> }
               /\ calls[Len(calls)] = RemoveCall
               /\ ctr = "removed")

\* ContainerStart failed and Run is back: create, attach, start, remove
C23_Witness ==
    /\ Returned
    /\ result.kind = "failed to start container"
    /\ OpsOf(calls) = <<"create", "attach", "start", "remove">>

----------------------------------------------------------------------------
(* Properties of the input relay (Spec) *)

\* the bytes this step reads from os.Stdin
NewlyRead == SubSeq(consumed', Len(consumed) + 1, Len(consumed'))
InterruptRule ==
    /\ isTTY => \A i \in DOMAIN fwd : fwd[i] # InterruptByte
    /\ (isTTY /\ HasInterrupt(consumed)) => "byte" \in cancelBy
    /\ ~isTTY => "byte" \notin cancelBy

----------------------------------------------------------------------------
(* Properties of the terminal mode (Spec) *)

\* term.SetRawTerminal succeeded: the resize watcher is started then, and
\* only then
SwitchedToRaw == monPc # "none"

\* C25: when Run switched the terminal to raw mode, the mode has been
\* restored exactly once when Run returns, whatever the outcome; in
\* non-TTY mode, and when the switch failed, the mode is never changed and
\* nothing is restored.
C25_TerminalRestoredOnce ==
    /\ []((Returned /\ SwitchedToRaw) => (restores = 1 /\ ~rawMode))
    /\ [](~SwitchedToRaw => (restores = 0 /\ ~rawMode))
    /\ []((~isTTY \/ result.kind = "failed to set raw terminal")
            => (restores = 0 /\ ~rawMode))
    /\ [][ /\ (rawMode' /\ ~rawMode) => (isTTY /\ restores = 0)
           /\ restores' # restores
                 => (rawMode /\ ~rawMode' /\ restores' = 1 /\ ~Returned) ]_vars

\* a TTY session was cancelled and Run is back with the terminal restored
C25_Witness ==
    /\ Returned
    /\ SwitchedToRaw
    /\ result.kind = "context canceled"
    /\ restores = 1
    /\ ~rawMode

----------------------------------------------------------------------------
(* Properties of the end of the session (Spec) *)

\* a task Run started has ended, or was never started
Terminated(taskPc) == taskPc \in {"none", "done"}
\* the input relay, the output relay or log follower, the resize watcher
RelaysTerminated ==
    Terminated(inPc) /\ Terminated(outPc) /\ Terminated(monPc)
\* no engine call follows the forced remove
RemoveIsLastCall == \A i \in Removes : i = Len(calls)

\* C30: when Run returns, the input relay, the output relay, the log
\* follower and the resize watcher have all terminated, and no engine call
\* on the container is issued after the forced remove, on the exit, error
\* and cancellation paths alike.
C30_NothingRunsAfterReturn ==
    /\ Returned => RelaysTerminated
    /\ RemoveIsLastCall

====
